---------------------------- MODULE Spec2Model ----------------------------
(***************************************************************************)
(* A model of the animation / rendering pipeline of `thegame`:             *)
(*   - Animation::play              (src/src/animator.rs)                  *)
(*   - Pixel / Frame                (src/src/renderer.rs)                  *)
(*   - GameState::update / start    (src/src/game.rs)                      *)
(*                                                                         *)
(* Numbers.  The program computes with f32.  The model uses exact          *)
(* fixed-point integers with one common scale:                             *)
(*   - a time value (delta, timer, a frame duration, the frame budget) is  *)
(*     a number of ticks, one tick being 1/TicksPerSecond second;          *)
(*   - a world position (player_pos, the offset of play) is a number of    *)
(*     1/TicksPerSecond cells, because player_pos grows by                 *)
(*     input * speed [cells/s] * delta [s];                                *)
(*   - a cell coordinate of a Pixel is a whole number of cells (it is      *)
(*     built from a u16 and only read back through `as u16`).              *)
(***************************************************************************)
EXTENDS Integers, Sequences, FiniteSets, TLC

(***************************************************************************)
(* Bounds of the model.                                                    *)
(***************************************************************************)
TicksPerSecond == 6
MaxFrames == 3
MaxDelta == 7
MaxTimer == 4
ScreenW == 3
ScreenH == 3
MaxPublish == 1
MaxElapsed == 4
MaxCalls == 4
MaxOps == 3
MaxDraws == 2
MaxEdits == 1
MaxRange == 2
MaxPixels == 2
MaxSubscribers == 2
MaxEvents == 2
MaxHeld == 2
MaxRebinds == 1
MaxQueue == 2

U16 == 65536

Threads == {1, 2}
GameThread == 1

(***************************************************************************)
(* Option<T>: None is the empty sequence, Some(v) the one-element one.     *)
(***************************************************************************)
None == << >>
Some(v) == << v >>
is_some(o) == Len(o) = 1
unwrap(o) == o[1]

(***************************************************************************)
(* palette.rs                                                              *)
(***************************************************************************)
RGB(r, g, b) == << "RGB", r, g, b >>
RGBA(r, g, b, a) == << "RGBA", r, g, b, a >>
RED == RGB(255, 0, 0)
LIGHT_GRAY == RGB(188, 188, 188)
TRANSPARENT == RGBA(0, 0, 0, 0)
BLUE == RGB(0, 0, 255)

Standard(color) == [scheme |-> "Standard", a |-> color, b |-> color, range |-> << "Horizontal", 1 >>]
CheckPattern(ca, cb, rng) == [scheme |-> "CheckPattern", a |-> ca, b |-> cb, range |-> rng]
Stroke(color, rng) == [scheme |-> "Stroke", a |-> color, b |-> color, range |-> rng]

(***************************************************************************)
(* layout.rs                                                               *)
(***************************************************************************)
Vertical(n) == << "Vertical", n >>
Horizontal(n) == << "Horizontal", n >>
Coordinate(cx, cy) == [x |-> cx, y |-> cy]
CoordinateAdd(p, q) == [x |-> p.x + q.x, y |-> p.y + q.y]
CoordinateMul(p, k) == [x |-> p.x * k, y |-> p.y * k]
MirrorDirection == {"None", "FlipVertical", "FlipHorizontal"}

(***************************************************************************)
(* renderer.rs: Pixel::new.  A cell is <<color, x, y>>.                    *)
(***************************************************************************)
extract_range(dir) == 0 .. (dir[2] - 1)

pattern_to_coordinate(dir, x, y, offset) ==
    IF dir[1] = "Horizontal" THEN << (x + offset) % U16, y >>
                             ELSE << x, (y + offset) % U16 >>

Pixel_new(color, x, y) ==
    IF color.scheme = "Standard"
    THEN << << color.a, x, y >> >>
    ELSE [k \in 1 .. Cardinality(extract_range(color.range)) |->
            LET i == k - 1
                c == IF color.scheme = "CheckPattern"
                     THEN (IF i % 2 = 0 THEN color.a ELSE color.b)
                     ELSE color.a
                p == pattern_to_coordinate(color.range, x, y, i)
            IN  << c, p[1], p[2] >>]

\* the u16 addition x + offset of pattern_to_coordinate goes past 65535 for
\* some offset of the range
new_overflows(color, x, y) ==
    /\ color.scheme # "Standard"
    /\ color.range[2] >= 1
    /\ IF color.range[1] = "Horizontal" THEN x + (color.range[2] - 1) >= U16
                                        ELSE y + (color.range[2] - 1) >= U16

(***************************************************************************)
(* renderer.rs: Frame::get_dimesions, Frame::new, Frame::resize.           *)
(***************************************************************************)
Max(a, b) == IF a >= b THEN a ELSE b

RECURSIVE MaxAxis(_, _, _)
MaxAxis(cells, axis, acc) ==
    IF cells = << >> THEN acc
    ELSE MaxAxis(Tail(cells), axis, Max(acc, Head(cells)[axis]))

RECURSIVE get_dimesions_from(_, _, _)
get_dimesions_from(pixels, w, h) ==
    IF pixels = << >> THEN << w, h >>
    ELSE get_dimesions_from(Tail(pixels),
                            MaxAxis(Head(pixels), 2, w),
                            MaxAxis(Head(pixels), 3, h))

\* variant: only the first pixel of the frame is measured
get_dimesions_first(pixels) ==
    IF pixels = << >> THEN << 0, 0 >> ELSE get_dimesions_from(<< Head(pixels) >>, 0, 0)

\* variant: the dimensions are sizes, one more than the largest coordinate
get_dimesions_plus_one(pixels) ==
    << get_dimesions_from(pixels, 0, 0)[1] + 1, get_dimesions_from(pixels, 0, 0)[2] + 1 >>

get_dimesions(pixels) == get_dimesions_from(pixels, 0, 0)

Frame_new(pixels, duration) ==
    [pixels |-> pixels,
     height |-> get_dimesions(pixels)[2],
     width |-> get_dimesions(pixels)[1],
     duration |-> duration]

Frame_resize(f) ==
    [f EXCEPT !.height = get_dimesions(f.pixels)[2],
              !.width = get_dimesions(f.pixels)[1]]

(***************************************************************************)
(* renderer.rs: Pixel::change_color and Pixel::move_pos: the pixel after   *)
(* the call (unchanged when the index is out of range).                    *)
(***************************************************************************)
Pixel_change_color(p, index, color) ==
    IF index + 1 \in DOMAIN p THEN [p EXCEPT ![index + 1][1] = color] ELSE p

\* what change_color and move_pos return: the previous colour, the previous
\* value of the axis (`as u16` of a value that was stored from a u16)
change_color_ret(p, index) ==
    IF index + 1 \in DOMAIN p THEN Some(p[index + 1][1]) ELSE None

move_pos_ret(p, index, dir) ==
    IF index + 1 \in DOMAIN p
    THEN Some(IF dir[1] = "Vertical" THEN p[index + 1][3] ELSE p[index + 1][2])
    ELSE None

\* variant: the value carried by dir is added to the coordinate
Pixel_move_pos_delta(p, index, dir) ==
    IF index + 1 \in DOMAIN p
    THEN (IF dir[1] = "Vertical" THEN [p EXCEPT ![index + 1][3] = (@ + dir[2]) % U16]
                                 ELSE [p EXCEPT ![index + 1][2] = (@ + dir[2]) % U16])
    ELSE p

Pixel_move_pos(p, index, dir) ==
    IF index + 1 \in DOMAIN p
    THEN (IF dir[1] = "Vertical" THEN [p EXCEPT ![index + 1][3] = dir[2]]
                                 ELSE [p EXCEPT ![index + 1][2] = dir[2]])
    ELSE p

(***************************************************************************)
(* renderer.rs: Pixel::mirror and Pixel::draw.                             *)
(* The screen buffer is a function from byte index to byte, row-major,     *)
(* four bytes (R, G, B, A) per screen cell.                                *)
(***************************************************************************)
BufLen == ScreenW * ScreenH * 4

\* u16 subtraction as a build without overflow checks computes it
mirror(x, width_height) == (width_height - x) % U16

\* the subtraction of Pixel::mirror goes below zero
mirror_underflows(x, width_height) == width_height < x

\* f32::round of a position in 1/TicksPerSecond cells: nearest whole cell,
\* halves away from zero
round(v) ==
    IF v >= 0 THEN (2 * v + TicksPerSecond) \div (2 * TicksPerSecond)
              ELSE 0 - ((2 * (0 - v) + TicksPerSecond) \div (2 * TicksPerSecond))

\* variant: an RGBA colour is blended over what the cell holds
write_color_blend(buf, idx, color) ==
    LET a == IF color[1] = "RGB" THEN 255 ELSE color[5]
        over(old, new) == (old * (255 - a) + new * a) \div 255
    IN  [i \in DOMAIN buf |->
            IF i = idx THEN over(buf[i], color[2])
            ELSE IF i = idx + 1 THEN over(buf[i], color[3])
            ELSE IF i = idx + 2 THEN over(buf[i], color[4])
            ELSE IF i = idx + 3 THEN Max(buf[i], a)
            ELSE buf[i]]

\* variant: the alpha byte is always opaque
write_color_opaque(buf, idx, color) ==
    [i \in DOMAIN buf |->
        IF i = idx THEN color[2]
        ELSE IF i = idx + 1 THEN color[3]
        ELSE IF i = idx + 2 THEN color[4]
        ELSE IF i = idx + 3 THEN 255
        ELSE buf[i]]

write_color(buf, idx, color) ==
    [i \in DOMAIN buf |->
        IF i = idx THEN color[2]
        ELSE IF i = idx + 1 THEN color[3]
        ELSE IF i = idx + 2 THEN color[4]
        ELSE IF i = idx + 3 THEN (IF color[1] = "RGB" THEN 255 ELSE color[5])
        ELSE buf[i]]

\* the mirror transformation of one cell: the cell position in whole cells
mirror_area(cell, mirrorv) ==
    IF mirrorv[1] = "FlipVertical" THEN << mirror(cell[2], mirrorv[2]), cell[3] >>
    ELSE IF mirrorv[1] = "FlipHorizontal" THEN << cell[2], mirror(cell[3], mirrorv[2]) >>
    ELSE << cell[2], cell[3] >>

cell_underflows(cell, mirrorv) ==
    \/ mirrorv[1] = "FlipVertical" /\ mirror_underflows(cell[2], mirrorv[2])
    \/ mirrorv[1] = "FlipHorizontal" /\ mirror_underflows(cell[3], mirrorv[2])

\* variant: the offset is added before the mirror is applied
cell_target_offset_first(cell, mirrorv, offset) ==
    IF mirrorv[1] = "FlipVertical"
    THEN << round(mirrorv[2] * TicksPerSecond - (offset.x + cell[2] * TicksPerSecond)),
            round(offset.y + cell[3] * TicksPerSecond) >>
    ELSE IF mirrorv[1] = "FlipHorizontal"
    THEN << round(offset.x + cell[2] * TicksPerSecond),
            round(mirrorv[2] * TicksPerSecond - (offset.y + cell[3] * TicksPerSecond)) >>
    ELSE << round(offset.x + cell[2] * TicksPerSecond),
            round(offset.y + cell[3] * TicksPerSecond) >>

\* screen position (column, row) of one cell after mirror, offset and round
cell_target(cell, mirrorv, offset) ==
    LET area == mirror_area(cell, mirrorv)
    IN  << round(offset.x + area[1] * TicksPerSecond),
           round(offset.y + area[2] * TicksPerSecond) >>

\* variant: the bounds test lets columns and rows below zero through
on_screen_unsigned(x, y) == ~(x >= ScreenW \/ y >= ScreenH)

\* variant: the bounds test lets the column and row just past the edge through
on_screen_loose(x, y) == ~(x < 0 \/ y < 0 \/ x > ScreenW \/ y > ScreenH)

on_screen(x, y) == ~(x < 0 \/ y < 0 \/ x >= ScreenW \/ y >= ScreenH)

draw_cell(buf, cell, mirrorv, offset) ==
    LET xy == cell_target(cell, mirrorv, offset)
        idx == ((xy[2] * ScreenW) + xy[1]) * 4
    IN  IF on_screen(xy[1], xy[2]) THEN write_color(buf, idx, cell[1]) ELSE buf

\* Pixel::draw over the cells from index i on.  `checked` is the build's
\* overflow-checks setting: with it the subtraction in Pixel::mirror panics
\* where it goes below zero, and the cells drawn before stay drawn.
RECURSIVE Pixel_draw(_, _, _, _, _, _)
Pixel_draw(buf, cells, i, mirrorv, offset, checked) ==
    IF i > Len(cells) THEN [buffer |-> buf, panicked |-> FALSE, cells |-> Len(cells)]
    ELSE IF checked /\ cell_underflows(cells[i], mirrorv)
         THEN [buffer |-> buf, panicked |-> TRUE, cells |-> i - 1]
         ELSE Pixel_draw(draw_cell(buf, cells[i], mirrorv, offset), cells, i + 1,
                         mirrorv, offset, checked)

pixel_underflows(cells, mirrorv) ==
    \E i \in 1 .. Len(cells) : cell_underflows(cells[i], mirrorv)

(***************************************************************************)
(* window.rs: Screen::clear of GameWindowScreen paints every cell opaque   *)
(* black.                                                                  *)
(***************************************************************************)
clear(buf) == [i \in DOMAIN buf |-> IF i % 4 = 3 THEN 255 ELSE 0]

(***************************************************************************)
(* mock.rs: the sprites of MockCharacter.  Their frames are struct         *)
(* literals with width = height = 5.                                       *)
(***************************************************************************)
MockFrame(x, y) ==
    [pixels |-> << Pixel_new(Standard(BLUE), x, y) >>,
     height |-> 5, width |-> 5, duration |-> None]

Sprite_default(frames) == [frames |-> frames, timer |-> 0, frame_pos |-> 0]

MockIdle_new == Sprite_default(<< MockFrame(0, 1), MockFrame(1, 1) >>)
MockSide_new == Sprite_default(<< MockFrame(0, 2), MockFrame(1, 2) >>)
MockFront_new == Sprite_default(<< MockFrame(0, 3), MockFrame(1, 3) >>)
MockBack_new == Sprite_default(<< MockFrame(0, 4), MockFrame(1, 4) >>)

Anims == {"idle", "side", "front", "back"}

MockCharacter_new ==
    [a \in Anims |->
        IF a = "idle" THEN MockIdle_new
        ELSE IF a = "side" THEN MockSide_new
        ELSE IF a = "front" THEN MockFront_new
        ELSE MockBack_new]

(***************************************************************************)
(* State.                                                                  *)
(***************************************************************************)
VARIABLES
    sprites,             \* per thread, per animation: [frames, timer, frame_pos]
    pc,                  \* per thread: its position inside Animation::play
    call,                \* per thread: arguments, entry state and screen calls of its play call
    lock,                \* holder of the screen mutex, 0 when free
    poisoned,            \* the screen mutex is poisoned
    buffer,              \* the frame buffer of the screen
    player_pos,          \* GameState.player_pos
    player_speed,        \* GameState.player_speed
    delta,               \* GameState.delta
    fps,                 \* GameState.fps, the frame budget
    gpc,                 \* position of the game thread: "tick", "playing"
    input,               \* the input polled by the running update
    pace,                \* the pacing of the last update: time measured, time slept
    chan,                \* the coordinates queued in the input channel
    published,           \* number of coordinates published so far
    animation_trigerred, \* the selector of the Character called last
    the_frame,           \* a Frame under construction: [pixels, height, width, duration]
    op,                  \* the last call made on `the_frame` or its pixels, and its result
    subscribers,         \* EventHandler.coordinate_subscribers: one channel each
    evt,                 \* the event loop: pc, the coordinates published, send index
    input_handler,       \* EventHandler.input_handler: [binding, mapping]
    keyed                \* the last call of to_coordinate: the key event, the held
                         \* set before it, the result

spriteVars == << sprites >>
playVars == << pc, call >>
screenVars == << lock, poisoned, buffer >>
gameVars == << player_pos, player_speed, delta, fps, gpc, input, pace,
              animation_trigerred >>
chanVars == << chan, published >>
rendVars == << the_frame, op >>
inputVars == << input_handler, keyed >>
eventVars == << subscribers, evt, inputVars >>
vars == << sprites, pc, call, lock, poisoned, buffer, player_pos,
           player_speed, delta, fps, gpc, input, pace, chan, published,
           animation_trigerred, the_frame, op, subscribers, evt, input_handler,
           keyed >>

(***************************************************************************)
(* input.rs: GameInputHandler.  A handler is [binding, mapping]: the key   *)
(* of each GameInput and the set of keys held.  A key event is             *)
(* [code, state].                                                          *)
(***************************************************************************)
GameInput == {"PlayerMoveUp", "PlayerMoveLeft", "PlayerMoveRight", "PlayerMoveDown"}

Arrows == {"ArrowUp", "ArrowLeft", "ArrowRight", "ArrowDown"}

\* the key codes followed: the arrows and two keys the default binds to nothing
KeyCode == Arrows \cup {"KeyW", "Power"}

\* lines 109-131
GameInputHandler_default ==
    [binding |-> [g \in GameInput |->
                     IF g = "PlayerMoveUp" THEN "ArrowUp"
                     ELSE IF g = "PlayerMoveLeft" THEN "ArrowLeft"
                     ELSE IF g = "PlayerMoveRight" THEN "ArrowRight"
                     ELSE "ArrowDown"],
     mapping |-> {}]

\* lines 98-104
\* variant: any held key counts for every input
is_held_any(h, g) == h.mapping # {}

is_held(h, g) == h.binding[g] \in h.mapping

\* lines 105-107
update_binding(h, g, key) == [h EXCEPT !.binding[g] = key]

\* lines 60-92: the coordinate of a press, from the keys held after it
\* variant: Right is asked for before Left, Down before Up
pressed_coordinate_swapped(h, code) ==
    IF is_held(h, "PlayerMoveUp") /\ is_held(h, "PlayerMoveLeft") THEN Some(Coordinate(-1, -1))
    ELSE IF is_held(h, "PlayerMoveDown") /\ is_held(h, "PlayerMoveLeft")
    THEN Some(Coordinate(-1, 1))
    ELSE IF is_held(h, "PlayerMoveDown") /\ is_held(h, "PlayerMoveRight")
    THEN Some(Coordinate(1, 1))
    ELSE IF is_held(h, "PlayerMoveUp") /\ is_held(h, "PlayerMoveRight")
    THEN Some(Coordinate(1, -1))
    ELSE IF is_held(h, "PlayerMoveRight") \/ code = "ArrowRight" THEN Some(Coordinate(1, 0))
    ELSE IF is_held(h, "PlayerMoveLeft") \/ code = "ArrowLeft" THEN Some(Coordinate(-1, 0))
    ELSE IF is_held(h, "PlayerMoveDown") \/ code = "ArrowDown" THEN Some(Coordinate(0, 1))
    ELSE IF is_held(h, "PlayerMoveUp") \/ code = "ArrowUp" THEN Some(Coordinate(0, -1))
    ELSE None

\* variant: no match yields the zero vector
pressed_coordinate_zero(h, code) ==
    IF is_held(h, "PlayerMoveUp") /\ is_held(h, "PlayerMoveLeft") THEN Some(Coordinate(-1, -1))
    ELSE IF is_held(h, "PlayerMoveDown") /\ is_held(h, "PlayerMoveLeft")
    THEN Some(Coordinate(-1, 1))
    ELSE IF is_held(h, "PlayerMoveDown") /\ is_held(h, "PlayerMoveRight")
    THEN Some(Coordinate(1, 1))
    ELSE IF is_held(h, "PlayerMoveUp") /\ is_held(h, "PlayerMoveRight")
    THEN Some(Coordinate(1, -1))
    ELSE IF is_held(h, "PlayerMoveLeft") \/ code = "ArrowLeft" THEN Some(Coordinate(-1, 0))
    ELSE IF is_held(h, "PlayerMoveRight") \/ code = "ArrowRight" THEN Some(Coordinate(1, 0))
    ELSE IF is_held(h, "PlayerMoveUp") \/ code = "ArrowUp" THEN Some(Coordinate(0, -1))
    ELSE IF is_held(h, "PlayerMoveDown") \/ code = "ArrowDown" THEN Some(Coordinate(0, 1))
    ELSE Some(Coordinate(0, 0))

\* variant: up is the positive y direction
pressed_coordinate_yup(h, code) ==
    IF is_held(h, "PlayerMoveUp") /\ is_held(h, "PlayerMoveLeft") THEN Some(Coordinate(-1, 1))
    ELSE IF is_held(h, "PlayerMoveDown") /\ is_held(h, "PlayerMoveLeft")
    THEN Some(Coordinate(-1, -1))
    ELSE IF is_held(h, "PlayerMoveDown") /\ is_held(h, "PlayerMoveRight")
    THEN Some(Coordinate(1, -1))
    ELSE IF is_held(h, "PlayerMoveUp") /\ is_held(h, "PlayerMoveRight")
    THEN Some(Coordinate(1, 1))
    ELSE IF is_held(h, "PlayerMoveLeft") \/ code = "ArrowLeft" THEN Some(Coordinate(-1, 0))
    ELSE IF is_held(h, "PlayerMoveRight") \/ code = "ArrowRight" THEN Some(Coordinate(1, 0))
    ELSE IF is_held(h, "PlayerMoveUp") \/ code = "ArrowUp" THEN Some(Coordinate(0, 1))
    ELSE IF is_held(h, "PlayerMoveDown") \/ code = "ArrowDown" THEN Some(Coordinate(0, -1))
    ELSE None

pressed_coordinate(h, code) ==
    IF is_held(h, "PlayerMoveUp") /\ is_held(h, "PlayerMoveLeft") THEN Some(Coordinate(-1, -1))
    ELSE IF is_held(h, "PlayerMoveDown") /\ is_held(h, "PlayerMoveLeft")
    THEN Some(Coordinate(-1, 1))
    ELSE IF is_held(h, "PlayerMoveDown") /\ is_held(h, "PlayerMoveRight")
    THEN Some(Coordinate(1, 1))
    ELSE IF is_held(h, "PlayerMoveUp") /\ is_held(h, "PlayerMoveRight")
    THEN Some(Coordinate(1, -1))
    ELSE IF is_held(h, "PlayerMoveLeft") \/ code = "ArrowLeft" THEN Some(Coordinate(-1, 0))
    ELSE IF is_held(h, "PlayerMoveRight") \/ code = "ArrowRight" THEN Some(Coordinate(1, 0))
    ELSE IF is_held(h, "PlayerMoveUp") \/ code = "ArrowUp" THEN Some(Coordinate(0, -1))
    ELSE IF is_held(h, "PlayerMoveDown") \/ code = "ArrowDown" THEN Some(Coordinate(0, 1))
    ELSE None

\* lines 50-97: the handler after the event, and the coordinate returned
\* variant: a release answers with the direction of the keys still held
\* variant: only the keys bound to a movement input are kept as held
to_coordinate_bound_only(h, key) ==
    LET bound == {h.binding[g] : g \in GameInput}
        held == IF key.code \in bound THEN h.mapping \cup {key.code} ELSE h.mapping
    IN  IF key.state = "Pressed"
        THEN [handler |-> [h EXCEPT !.mapping = held],
              ret |-> pressed_coordinate([h EXCEPT !.mapping = held], key.code)]
        ELSE [handler |-> [h EXCEPT !.mapping = @ \ {key.code}],
              ret |-> None]

to_coordinate_on_release(h, key) ==
    IF key.state = "Pressed"
    THEN [handler |-> [h EXCEPT !.mapping = @ \cup {key.code}],
          ret |-> pressed_coordinate([h EXCEPT !.mapping = @ \cup {key.code}], key.code)]
    ELSE [handler |-> [h EXCEPT !.mapping = @ \ {key.code}],
          ret |-> pressed_coordinate([h EXCEPT !.mapping = @ \ {key.code}], "")]

to_coordinate(h, key) ==
    IF key.state = "Pressed"
    THEN [handler |-> [h EXCEPT !.mapping = @ \cup {key.code}],
          ret |-> pressed_coordinate([h EXCEPT !.mapping = @ \cup {key.code}], key.code)]
    ELSE [handler |-> [h EXCEPT !.mapping = @ \ {key.code}],
          ret |-> None]

\* no call of to_coordinate has been made with the present bindings
NoKey == [code |-> "", state |-> "none", ret |-> None, held |-> {}]

(***************************************************************************)
(* animator.rs: Animation::play, lines 36-47: the frame-advance step.      *)
(***************************************************************************)
default_duration(s) == TicksPerSecond \div Len(s.frames)

\* variant: the duration is that of the frame the call may advance to
duration_of_after(s) ==
    LET d == s.frames[((s.frame_pos + 1) % Len(s.frames)) + 1].duration
    IN  IF is_some(d) THEN unwrap(d) ELSE default_duration(s)

duration_of(s) ==
    LET d == s.frames[s.frame_pos + 1].duration
    IN  IF is_some(d) THEN unwrap(d) ELSE default_duration(s)

\* variant: a loop that catches up over every frame boundary delta crossed
RECURSIVE catch_up(_)
catch_up(s) ==
    IF duration_of(s) > 0 /\ s.timer >= duration_of(s)
    THEN catch_up([s EXCEPT !.timer = s.timer - duration_of(s),
                            !.frame_pos = (s.frame_pos + 1) % Len(s.frames)])
    ELSE s

play_advance_catchup(s, dt) == catch_up([s EXCEPT !.timer = s.timer + dt])

\* variant: the timer restarts from zero on a frame switch
play_advance_reset(s, dt) ==
    IF s.timer + dt >= duration_of(s)
    THEN [s EXCEPT !.timer = 0, !.frame_pos = (s.frame_pos + 1) % Len(s.frames)]
    ELSE [s EXCEPT !.timer = s.timer + dt]

\* variant: the timer is overwritten with delta instead of accumulating it
play_advance_noacc(s, dt) ==
    IF dt >= duration_of(s)
    THEN [s EXCEPT !.timer = dt - duration_of(s),
                   !.frame_pos = (s.frame_pos + 1) % Len(s.frames)]
    ELSE [s EXCEPT !.timer = dt]

\* variant: every call switches to the next frame
play_advance_always(s, dt) ==
    [s EXCEPT !.timer = IF s.timer + dt >= duration_of(s)
                        THEN s.timer + dt - duration_of(s) ELSE s.timer + dt,
              !.frame_pos = (s.frame_pos + 1) % Len(s.frames)]

\* variant: the index is not reduced modulo the number of frames
play_advance_nomod(s, dt) ==
    LET duration == duration_of(s)
        timer == s.timer + dt
    IN  IF timer >= duration
        THEN [s EXCEPT !.timer = timer - duration,
                       !.frame_pos = s.frame_pos + 1]
        ELSE [s EXCEPT !.timer = timer]

\* variant: the last frame is not left
play_advance_nowrap(s, dt) ==
    LET duration == duration_of(s)
        timer == s.timer + dt
    IN  IF timer >= duration
        THEN [s EXCEPT !.timer = timer - duration,
                       !.frame_pos = IF s.frame_pos + 1 < Len(s.frames)
                                     THEN s.frame_pos + 1 ELSE s.frame_pos]
        ELSE [s EXCEPT !.timer = timer]

play_advance(s, dt) ==
    LET duration == duration_of(s)
        timer == s.timer + dt
    IN  IF timer >= duration
        THEN [s EXCEPT !.timer = timer - duration,
                       !.frame_pos = (s.frame_pos + 1) % Len(s.frames)]
        ELSE [s EXCEPT !.timer = timer]

\* no call has been made on `the_frame` yet.  `before` is the frame and the
\* screen buffer as they were when the call was made.
NoOp ==
    [name |-> "none", pi |-> 0, index |-> 0, arg |-> << >>, offset |-> Coordinate(0, 0),
     ret |-> None, panicked |-> FALSE, cells |-> 0,
     before |-> [frame |-> Frame_new(<< >>, None),
                 buffer |-> [i \in 0 .. (BufLen - 1) |-> 0]],
     n |-> 0]

\* no update has paced yet
NoPace == [elapsed |-> 0, slept |-> 0]

\* EventHandler::new: the loop is not started, nothing is published
NoEvents == [pc |-> "setup", log |-> << >>, i |-> 0]

NoCall ==
    [anim |-> "idle", delta |-> 0, mirror |-> "None", offset |-> Coordinate(0, 0),
     timer0 |-> 0, pos0 |-> 0, pi |-> 1, nclear |-> 0, ncells |-> 0, nrender |-> 0,
     result |-> "none", streak |-> 0, absorbed |-> FALSE]

\* history of the calls of one caller: the number of play calls made so far
\* when each of them had delta > 1/N seconds (N the frame count), -1 otherwise
next_streak(n, s, dt) ==
    IF n >= 0 /\ n < MaxCalls /\ dt * Len(s.frames) > TicksPerSecond THEN n + 1 ELSE -1

\* lines 36-47, up to the attempt to lock the screen
\* variant: the animations that are not played start over
PlayEnter_restart(t, a, dt, m, offset) ==
    /\ pc[t] = "idle"
    /\ play_advance(sprites[t][a], dt).timer <= MaxTimer
    /\ sprites' = [sprites EXCEPT ![t] =
                     [b \in Anims |->
                        IF b = a THEN play_advance(sprites[t][a], dt)
                        ELSE [sprites[t][b] EXCEPT !.timer = 0, !.frame_pos = 0]]]
    /\ pc' = [pc EXCEPT ![t] = "lock"]
    /\ call' = [call EXCEPT ![t] =
                  [NoCall EXCEPT !.anim = a, !.delta = dt, !.mirror = m,
                                 !.offset = offset,
                                 !.timer0 = sprites[t][a].timer,
                                 !.pos0 = sprites[t][a].frame_pos,
                                 !.streak = next_streak(call[t].streak, sprites[t][a], dt)]]

\* variant: the sprite is left as it is until the screen is locked
PlayEnter_unadvanced(t, a, dt, m, offset) ==
    /\ pc[t] = "idle"
    /\ play_advance(sprites[t][a], dt).timer <= MaxTimer
    /\ UNCHANGED sprites
    /\ pc' = [pc EXCEPT ![t] = "lock"]
    /\ call' = [call EXCEPT ![t] =
                  [NoCall EXCEPT !.anim = a, !.delta = dt, !.mirror = m,
                                 !.offset = offset,
                                 !.timer0 = sprites[t][a].timer,
                                 !.pos0 = sprites[t][a].frame_pos,
                                 !.streak = next_streak(call[t].streak, sprites[t][a], dt)]]

PlayEnter(t, a, dt, m, offset) ==
    /\ pc[t] = "idle"
    /\ play_advance(sprites[t][a], dt).timer <= MaxTimer
    /\ sprites' = [sprites EXCEPT ![t][a] = play_advance(sprites[t][a], dt)]
    /\ pc' = [pc EXCEPT ![t] = "lock"]
    /\ call' = [call EXCEPT ![t] =
                  [NoCall EXCEPT !.anim = a, !.delta = dt, !.mirror = m,
                                 !.offset = offset,
                                 !.timer0 = sprites[t][a].timer,
                                 !.pos0 = sprites[t][a].frame_pos,
                                 !.streak = next_streak(call[t].streak, sprites[t][a], dt)]]

current_frame(t) ==
    LET s == sprites[t][call[t].anim] IN s.frames[s.frame_pos + 1]

\* lines 49-51: screen.lock().  A poisoned mutex yields the error; the guard
\* inside the error is dropped by map_err.
\* variant: the screen is entered without waiting for the mutex
acquire_always(t) == TRUE

acquire(t) == lock = 0

Lock(t) ==
    /\ pc[t] = "lock"
    /\ acquire(t)
    /\ IF poisoned
       THEN /\ pc' = [pc EXCEPT ![t] = "idle"]
            /\ call' = [call EXCEPT ![t].result = "ScreenLockError"]
            /\ UNCHANGED lock
       ELSE /\ pc' = [pc EXCEPT ![t] = "clear"]
            /\ lock' = t
            /\ UNCHANGED call
    /\ UNCHANGED << poisoned, buffer >>

\* variant: the frame is drawn without clearing the screen first
Clear_skipped(t) ==
    /\ pc[t] = "clear"
    /\ pc' = [pc EXCEPT ![t] = "draw"]
    /\ UNCHANGED << call, lock, poisoned, buffer >>

\* line 53: screen_lock.clear()?
Clear(t) ==
    /\ pc[t] = "clear"
    /\ \E ok \in BOOLEAN :
         IF ok
         THEN /\ buffer' = clear(buffer)
              /\ pc' = [pc EXCEPT ![t] = "draw"]
              /\ call' = [call EXCEPT ![t].nclear = @ + 1]
              /\ UNCHANGED lock
         ELSE /\ pc' = [pc EXCEPT ![t] = "idle"]
              /\ call' = [call EXCEPT ![t].nclear = @ + 1, ![t].result = "ClearError"]
              /\ lock' = 0
              /\ UNCHANGED buffer
    /\ UNCHANGED poisoned

\* lines 59-75: the MirrorDirectionValue built for the frame that is drawn
\* variant: the extent is that of the screen
mirror_value_screen(m, frame) ==
    IF m = "FlipVertical" THEN << "FlipVertical", ScreenW >>
    ELSE IF m = "FlipHorizontal" THEN << "FlipHorizontal", ScreenH >>
    ELSE << "None", 0 >>

mirror_value(m, frame) ==
    IF m = "FlipVertical" THEN << "FlipVertical", frame.width >>
    ELSE IF m = "FlipHorizontal" THEN << "FlipHorizontal", frame.height >>
    ELSE << "None", 0 >>

\* lines 55-76: one iteration of the loop over the pixels of the frame
DrawPixel(t) ==
    /\ pc[t] = "draw"
    /\ call[t].pi <= Len(current_frame(t).pixels)
    /\ LET frame == current_frame(t)
           p == frame.pixels[call[t].pi]
           mv == mirror_value(call[t].mirror, frame)
       IN  \E checked \in (IF pixel_underflows(p, mv) THEN BOOLEAN ELSE {FALSE}) :
             LET r == Pixel_draw(buffer, p, 1, mv, call[t].offset, checked)
             IN  /\ buffer' = r.buffer
                 /\ IF r.panicked
                    THEN /\ pc' = [pc EXCEPT ![t] = "panicked"]
                         /\ call' = [call EXCEPT ![t].ncells = @ + r.cells,
                                                 ![t].result = "panic"]
                         /\ lock' = 0
                         /\ poisoned' = TRUE
                    ELSE /\ call' = [call EXCEPT ![t].pi = @ + 1,
                                                 ![t].ncells = @ + r.cells]
                         /\ UNCHANGED << pc, lock, poisoned >>

\* line 78-80: screen_lock.render()?; Ok(())
Render(t) ==
    /\ pc[t] = "draw"
    /\ call[t].pi > Len(current_frame(t).pixels)
    /\ \E ok \in BOOLEAN :
         /\ call' = [call EXCEPT ![t].nrender = @ + 1,
                                 ![t].result = IF ok THEN "Ok" ELSE "RenderError"]
         /\ lock' = 0
    /\ pc' = [pc EXCEPT ![t] = "idle"]
    /\ UNCHANGED << poisoned, buffer >>

PlayStep(t) ==
    \/ Lock(t) /\ UNCHANGED << spriteVars, gameVars, chanVars, rendVars, eventVars >>
    \/ Clear(t) /\ UNCHANGED << spriteVars, gameVars, chanVars, rendVars, eventVars >>
    \/ DrawPixel(t) /\ UNCHANGED << spriteVars, gameVars, chanVars, rendVars, eventVars >>
    \/ Render(t) /\ UNCHANGED << spriteVars, gameVars, chanVars, rendVars, eventVars >>

(***************************************************************************)
(* game.rs: GameState::update.                                             *)
(***************************************************************************)
\* lines 83-128: the match on the polled input: <<selector, mirror>>
\* variant: the mirrored walk is on the right instead of the left
select_animation_swapped(inp) ==
    IF is_some(inp) /\ unwrap(inp).x = -1 THEN << "side", "None" >>
    ELSE IF is_some(inp) /\ unwrap(inp).x = 1 THEN << "side", "FlipVertical" >>
    ELSE IF is_some(inp) /\ unwrap(inp).y = 1 THEN << "front", "None" >>
    ELSE IF is_some(inp) /\ unwrap(inp).y = -1 THEN << "back", "None" >>
    ELSE << "idle", "None" >>

\* variant: each arm matches both fields of the vector
select_animation_exact(inp) ==
    IF inp = Some(Coordinate(-1, 0)) THEN << "side", "FlipVertical" >>
    ELSE IF inp = Some(Coordinate(1, 0)) THEN << "side", "None" >>
    ELSE IF inp = Some(Coordinate(0, 1)) THEN << "front", "None" >>
    ELSE IF inp = Some(Coordinate(0, -1)) THEN << "back", "None" >>
    ELSE << "idle", "None" >>

select_animation(inp) ==
    IF is_some(inp) /\ unwrap(inp).x = -1 THEN << "side", "FlipVertical" >>
    ELSE IF is_some(inp) /\ unwrap(inp).x = 1 THEN << "side", "None" >>
    ELSE IF is_some(inp) /\ unwrap(inp).y = 1 THEN << "front", "None" >>
    ELSE IF is_some(inp) /\ unwrap(inp).y = -1 THEN << "back", "None" >>
    ELSE << "idle", "None" >>

\* lines 73-79: rx.try_recv() and the movement
\* variant: an empty channel yields a vector again
\* variant: the channel hands out the coordinate sent last
try_recv_newest(q) == IF q = << >> THEN None ELSE Some(q[Len(q)])

try_recv_stale(q) == IF q = << >> THEN Some(Coordinate(1, 0)) ELSE Some(Head(q))

try_recv(q) == IF q = << >> THEN None ELSE Some(Head(q))

\* variant: the movement is not scaled by delta
move_player_nodelta(pos, inp, speed, dt) ==
    IF is_some(inp) THEN CoordinateAdd(pos, CoordinateMul(unwrap(inp), speed)) ELSE pos

move_player(pos, inp, speed, dt) ==
    IF is_some(inp)
    THEN CoordinateAdd(pos, CoordinateMul(CoordinateMul(unwrap(inp), speed), dt))
    ELSE pos

\* lines 72-128 up to the screen lock inside play: poll, move, select, and
\* the frame-advance step of the selected animation
UpdatePoll ==
    /\ gpc = "tick"
    /\ LET inp == try_recv(chan)
           pos == move_player(player_pos, inp, player_speed, delta)
           sel == select_animation(inp)
       IN  /\ input' = inp
           /\ chan' = IF chan = << >> THEN chan ELSE Tail(chan)
           /\ player_pos' = pos
           /\ animation_trigerred' = sel[1]
           /\ PlayEnter(GameThread, sel[1], delta, sel[2], pos)
    /\ gpc' = "playing"
    /\ pace' = NoPace
    /\ UNCHANGED << screenVars, player_speed, delta, fps, published, rendVars,
                    eventVars >>

\* lines 132-134: the time update asks sleep for
\* variant: the tick is never padded to the frame budget
sleep_time_never(elapsed, budget) == 0

sleep_time(elapsed, budget) == IF elapsed < budget THEN budget - elapsed ELSE 0

\* lines 129-139, and the `?` on the result of play.  `elapsed` is the time
\* from `tick` to line 131; sleep returns after the time asked for or later,
\* and line 137 records the time from `tick` to the end of the sleep.
\* variant: the tick is paced and delta recorded whatever play returned
UpdateFinish_paces ==
    /\ gpc = "playing"
    /\ pc[GameThread] = "idle"
    /\ \E elapsed \in 0 .. MaxElapsed :
         LET asked == sleep_time(elapsed, fps)
         IN  \E slept \in (IF asked = 0 THEN {0}
                           ELSE asked .. Max(asked, MaxElapsed - elapsed)) :
               /\ delta' = elapsed + slept
               /\ pace' = [elapsed |-> elapsed, slept |-> slept]
    /\ gpc' = "tick"
    /\ input' = None
    /\ call' = [call EXCEPT ![GameThread] = NoCall]
    /\ UNCHANGED << spriteVars, pc, screenVars, chanVars, player_pos,
                    player_speed, fps, animation_trigerred, rendVars, eventVars >>

\* variant: an error of update is propagated out of the loop of start
UpdateFinish_exits ==
    /\ gpc = "playing"
    /\ pc[GameThread] = "idle"
    /\ IF call[GameThread].result = "Ok"
       THEN /\ \E elapsed \in 0 .. MaxElapsed :
                 LET asked == sleep_time(elapsed, fps)
                 IN  \E slept \in (IF asked = 0 THEN {0}
                                   ELSE asked .. Max(asked, MaxElapsed - elapsed)) :
                       /\ delta' = elapsed + slept
                       /\ pace' = [elapsed |-> elapsed, slept |-> slept]
            /\ gpc' = "tick"
       ELSE /\ UNCHANGED << delta, pace >>
            /\ gpc' = "exited"
    /\ input' = None
    /\ call' = [call EXCEPT ![GameThread] = NoCall]
    /\ UNCHANGED << spriteVars, pc, screenVars, chanVars, player_pos,
                    player_speed, fps, animation_trigerred, rendVars, eventVars >>

UpdateFinish ==
    /\ gpc = "playing"
    /\ pc[GameThread] = "idle"
    /\ IF call[GameThread].result = "Ok"
       THEN \E elapsed \in 0 .. MaxElapsed :
              LET asked == sleep_time(elapsed, fps)
              IN  \E slept \in (IF asked = 0 THEN {0}
                                ELSE asked .. Max(asked, MaxElapsed - elapsed)) :
                    /\ delta' = elapsed + slept
                    /\ pace' = [elapsed |-> elapsed, slept |-> slept]
       ELSE UNCHANGED << delta, pace >>
    /\ gpc' = "tick"
    /\ input' = None
    /\ call' = [call EXCEPT ![GameThread] = NoCall]
    /\ UNCHANGED << spriteVars, pc, screenVars, chanVars, player_pos,
                    player_speed, fps, animation_trigerred, rendVars, eventVars >>

(***************************************************************************)
(* event.rs: a coordinate sent to the subscriber's channel.                *)
(***************************************************************************)
Inputs == {Coordinate(cx, cy) : cx \in {-1, 0, 1}, cy \in {-1, 0, 1}}

Publish(c) ==
    /\ published < MaxPublish
    /\ chan' = Append(chan, c)
    /\ published' = published + 1
    /\ UNCHANGED << spriteVars, playVars, screenVars, gameVars, rendVars, eventVars >>

(***************************************************************************)
(* Initial states.                                                         *)
(***************************************************************************)
\* GameState::new, lines 44-60: the frame budget of a rate of `rate` per second
frame_budget(rate) == TicksPerSecond \div rate

\* variant: delta starts at the frame budget
InitBase_paced ==
    /\ pc = [t \in Threads |-> "idle"]
    /\ call = [t \in Threads |-> NoCall]
    /\ lock = 0
    /\ poisoned = FALSE
    /\ buffer = [i \in 0 .. (BufLen - 1) |-> 0]
    /\ player_pos = Coordinate(0, 0)
    /\ player_speed \in {1, 10}
    /\ delta = frame_budget(2)
    /\ fps = frame_budget(2)
    /\ gpc = "tick"
    /\ input = None
    /\ pace = NoPace
    /\ chan = << >>
    /\ published = 0
    /\ animation_trigerred = ""
    /\ op = NoOp
    /\ subscribers = << >>
    /\ evt = NoEvents
    /\ input_handler = GameInputHandler_default
    /\ keyed = NoKey

InitBase ==
    /\ pc = [t \in Threads |-> "idle"]
    /\ call = [t \in Threads |-> NoCall]
    /\ lock = 0
    /\ poisoned = FALSE
    /\ buffer = [i \in 0 .. (BufLen - 1) |-> 0]
    /\ player_pos = Coordinate(0, 0)
    /\ player_speed \in {1, 10}
    /\ delta = 0
    /\ fps = frame_budget(2)
    /\ gpc = "tick"
    /\ input = None
    /\ pace = NoPace
    /\ chan = << >>
    /\ published = 0
    /\ animation_trigerred = ""
    /\ op = NoOp
    /\ subscribers = << >>
    /\ evt = NoEvents
    /\ input_handler = GameInputHandler_default
    /\ keyed = NoKey

InitRest ==
    /\ InitBase
    /\ the_frame = Frame_new(<< >>, None)

(***************************************************************************)
(* Spec: one GameState with a MockCharacter, its loop calling update.      *)
(***************************************************************************)
Init ==
    /\ sprites = [t \in Threads |-> MockCharacter_new]
    /\ InitRest

Next ==
    \/ \E c \in Inputs : Publish(c)
    \/ UpdatePoll
    \/ PlayStep(GameThread)
    \/ UpdateFinish

Spec == Init /\ [][Next]_vars

(***************************************************************************)
(* SpecPlay: one caller plays one sprite again and again, with any delta,  *)
(* mirror mode and offset.  The sprite is any sequence of one to MaxFrames *)
(* frames, with and without an explicit duration.                          *)
(***************************************************************************)
FrameA == Frame_new(<< Pixel_new(Standard(RED), 1, 1) >>, None)

FrameB ==
    Frame_new(<< Pixel_new(Stroke(LIGHT_GRAY, Horizontal(2)), 0, 0),
                 Pixel_new(Standard(TRANSPARENT), 2, 1) >>,
              Some(TicksPerSecond - 1))

FrameChoices == {FrameA, FrameB}

FrameLists == UNION {[1 .. n -> FrameChoices] : n \in 1 .. MaxFrames}

PlayOffsets == {Coordinate(0, 0)}

PlayMirrors == {"None", "FlipVertical"}

\* a direct call of play by thread t on its animation a
Play(t, a, deltas, mirrors, offsets) ==
    /\ \E dt \in deltas, m \in mirrors, offset \in offsets :
         PlayEnter(t, a, dt, m, offset)
    /\ UNCHANGED << screenVars, gameVars, chanVars, rendVars, eventVars >>

InitPlay ==
    /\ \E fs \in FrameLists :
         sprites = [t \in Threads |->
                      [MockCharacter_new EXCEPT !["idle"] =
                          IF t = 1 THEN Sprite_default(fs) ELSE @]]
    /\ InitRest
    /\ player_speed = 1

NextPlay ==
    \/ Play(1, "idle", 0 .. MaxDelta, PlayMirrors, PlayOffsets)
    \/ PlayStep(1)

SpecPlay == InitPlay /\ [][NextPlay]_vars

(***************************************************************************)
(* SpecShared: two callers, each with its own sprite, play on the one      *)
(* shared screen.  The second sprite has a frame whose pixel was moved     *)
(* with move_pos and not resized.                                          *)
(***************************************************************************)
FrameStale ==
    [FrameA EXCEPT !.pixels[1] = Pixel_move_pos(@, 0, Horizontal(2))]

SharedDeltas == {0, TicksPerSecond \div 2}

InitShared ==
    /\ sprites = [t \in Threads |->
                    [MockCharacter_new EXCEPT !["idle"] =
                        IF t = 1 THEN @ ELSE Sprite_default(<< FrameA, FrameStale >>)]]
    /\ InitRest
    /\ player_speed = 1

NextShared ==
    \/ \E t \in Threads : Play(t, "idle", SharedDeltas, MirrorDirection, {Coordinate(0, 0)})
    \/ \E t \in Threads : PlayStep(t)

SpecShared == InitShared /\ [][NextShared]_vars

(***************************************************************************)
(* SpecDraw: Pixel::draw called on the pixels of a frame, with any mirror  *)
(* value and offset, on a screen that keeps what earlier calls drew.       *)
(***************************************************************************)
\* what every call on `the_frame` records
Called(name, pi) ==
    [NoOp EXCEPT !.name = name, !.pi = pi, !.n = op.n + 1,
                 !.before = [frame |-> the_frame, buffer |-> buffer]]

\* renderer.rs lines 212-268: pixel.draw(screen, mirror, offset) on pixel pi
Draw(pi, mirrorv, offset) ==
    /\ pi \in DOMAIN the_frame.pixels
    /\ LET p == the_frame.pixels[pi]
       IN  \E checked \in (IF pixel_underflows(p, mirrorv) THEN BOOLEAN ELSE {FALSE}) :
             LET r == Pixel_draw(buffer, p, 1, mirrorv, offset, checked)
             IN  /\ buffer' = r.buffer
                 /\ op' = [Called("draw", pi) EXCEPT !.arg = mirrorv,
                                                     !.offset = offset,
                                                     !.panicked = r.panicked,
                                                     !.cells = r.cells]
    /\ UNCHANGED << the_frame, spriteVars, playVars, lock, poisoned, gameVars,
                    chanVars, eventVars >>

FrameC ==
    Frame_new(<< Pixel_new(CheckPattern(RED, RGBA(1, 2, 3, 4), Horizontal(2)), 0, 1),
                 Pixel_new(Standard(TRANSPARENT), 2, 0) >>, None)

FrameD ==
    Frame_new(<< Pixel_new(Stroke(LIGHT_GRAY, Vertical(2)), 1, 0),
                 Pixel_new(Stroke(BLUE, Horizontal(2)), ScreenW - 1, 2) >>, None)

DrawFrames == {FrameA, FrameC, FrameD}

\* offsets in 1/TicksPerSecond cells: none, one cell to the left, half a cell
\* right and one down, half a cell up, and far to the left
DrawOffsets ==
    {Coordinate(0, 0), Coordinate(0 - TicksPerSecond, 0),
     Coordinate(TicksPerSecond \div 2, TicksPerSecond),
     Coordinate(0, 0 - (TicksPerSecond \div 2)),
     Coordinate(0 - ((U16 - 1) * TicksPerSecond), 0)}

\* the mirror values play builds for the frame, and extents below them
DrawMirrors(f) ==
    {<< "None", 0 >>, << "FlipVertical", f.width >>, << "FlipVertical", 0 >>,
     << "FlipHorizontal", f.height >>, << "FlipHorizontal", 0 >>}

InitDraw ==
    /\ InitBase
    /\ sprites = [t \in Threads |-> MockCharacter_new]
    /\ player_speed = 1
    /\ the_frame \in DrawFrames

NextDraw ==
    \E pi \in 1 .. Len(the_frame.pixels), mirrorv \in DrawMirrors(the_frame),
       offset \in DrawOffsets : op.n < MaxDraws /\ Draw(pi, mirrorv, offset)

SpecDraw == InitDraw /\ [][NextDraw]_vars

(***************************************************************************)
(* Calls that build and change a frame: Frame::new, Pixel::new pushed to   *)
(* frame.pixels, Pixel::move_pos, Pixel::change_color, Frame::resize.      *)
(***************************************************************************)
rendRest == << buffer, spriteVars, playVars, lock, poisoned, gameVars, chanVars, eventVars >>

\* renderer.rs lines 55-63
NewFrame(pixels, duration) ==
    /\ the_frame' = Frame_new(pixels, duration)
    /\ op' = Called("Frame::new", 0)
    /\ UNCHANGED rendRest

\* frame.pixels.push(Pixel::new(color, x, y)) (knight.rs line 246).  Where
\* the u16 addition of pattern_to_coordinate overflows, a build with overflow
\* checks panics inside Pixel::new and one without wraps.
Push(color, x, y) ==
    /\ \E checked \in (IF new_overflows(color, x, y) THEN BOOLEAN ELSE {FALSE}) :
         /\ the_frame' = IF checked THEN the_frame
                         ELSE [the_frame EXCEPT !.pixels = Append(@, Pixel_new(color, x, y))]
         /\ op' = [Called("Pixel::new", Len(the_frame.pixels) + 1) EXCEPT
                      !.arg = << color, x, y >>, !.panicked = checked]
    /\ UNCHANGED rendRest

\* renderer.rs lines 82-86
Resize ==
    /\ the_frame' = Frame_resize(the_frame)
    /\ op' = Called("resize", 0)
    /\ UNCHANGED rendRest

\* variant: move_pos brings the stored dimensions up to date itself
MovePos_resizing(pi, index, dir) ==
    /\ pi \in DOMAIN the_frame.pixels
    /\ the_frame' = Frame_resize([the_frame EXCEPT !.pixels[pi] = Pixel_move_pos(@, index, dir)])
    /\ op' = [Called("move_pos", pi) EXCEPT
                 !.index = index, !.arg = dir,
                 !.ret = move_pos_ret(the_frame.pixels[pi], index, dir)]
    /\ UNCHANGED rendRest

\* renderer.rs lines 188-205: frame.pixels[pi].move_pos(index, dir)
MovePos(pi, index, dir) ==
    /\ pi \in DOMAIN the_frame.pixels
    /\ the_frame' = [the_frame EXCEPT !.pixels[pi] = Pixel_move_pos(@, index, dir)]
    /\ op' = [Called("move_pos", pi) EXCEPT
                 !.index = index, !.arg = dir,
                 !.ret = move_pos_ret(the_frame.pixels[pi], index, dir)]
    /\ UNCHANGED rendRest

\* renderer.rs lines 177-184: frame.pixels[pi].change_color(index, color)
ChangeColor(pi, index, color) ==
    /\ pi \in DOMAIN the_frame.pixels
    /\ the_frame' = [the_frame EXCEPT !.pixels[pi] = Pixel_change_color(@, index, color)]
    /\ op' = [Called("change_color", pi) EXCEPT
                 !.index = index, !.arg = color,
                 !.ret = change_color_ret(the_frame.pixels[pi], index)]
    /\ UNCHANGED rendRest

InitEmpty ==
    /\ InitRest
    /\ sprites = [t \in Threads |-> MockCharacter_new]
    /\ player_speed = 1

(***************************************************************************)
(* SpecPixel: one pixel is built with any colour scheme and position and   *)
(* then changed.                                                           *)
(***************************************************************************)
Ranges == {Horizontal(n) : n \in 0 .. MaxRange} \cup {Vertical(n) : n \in 0 .. MaxRange}

Schemes ==
    {Standard(RED)} \cup {CheckPattern(RED, TRANSPARENT, r) : r \in Ranges}
                    \cup {Stroke(LIGHT_GRAY, r) : r \in Ranges}

\* u16 values: the smallest two and the largest
Positions == {0, 1, U16 - 1}

NextPixel ==
    \/ \E c \in Schemes, x \in Positions, y \in Positions :
          the_frame.pixels = << >> /\ op.n = 0 /\ Push(c, x, y)
    \/ \E index \in 0 .. MaxRange, v \in Positions :
          /\ op.n <= MaxEdits
          /\ \/ MovePos(1, index, Horizontal(v))
             \/ MovePos(1, index, Vertical(v))
    \/ \E index \in 0 .. MaxRange, c \in {BLUE, TRANSPARENT} :
          op.n <= MaxEdits /\ ChangeColor(1, index, c)

SpecPixel == InitEmpty /\ [][NextPixel]_vars

(***************************************************************************)
(* SpecFrame: a frame is built from pixels, its pixels are moved,          *)
(* recoloured and added to, and it is resized.                             *)
(***************************************************************************)
PixelChoices ==
    {Pixel_new(Standard(RED), 1, 1),
     Pixel_new(Stroke(LIGHT_GRAY, Horizontal(2)), 0, 2),
     Pixel_new(CheckPattern(RED, TRANSPARENT, Vertical(2)), 3, 0)}

PixelLists == UNION {[1 .. n -> PixelChoices] : n \in 0 .. MaxPixels}

NextFrame ==
    \/ \E pixels \in PixelLists : op.n = 0 /\ NewFrame(pixels, None)
    \/ /\ op.n \in 1 .. (MaxOps - 1)
       /\ \/ Len(the_frame.pixels) < MaxPixels /\ Push(Standard(BLUE), 4, 0)
          \/ Resize
          \/ \E pi \in 1 .. MaxPixels, index \in {0, 1}, v \in {0, 5} :
                \/ MovePos(pi, index, Horizontal(v))
                \/ MovePos(pi, index, Vertical(v))
          \/ \E pi \in 1 .. MaxPixels : ChangeColor(pi, 0, TRANSPARENT)

SpecFrame == InitEmpty /\ [][NextFrame]_vars

(***************************************************************************)
(* Properties.                                                             *)
(***************************************************************************)
\* thread t has entered a play call whose entry state `call` still records
CalledPlay(t) == pc[t] # "idle" \/ call[t].result # "none"

\* the sprite thread t plays, now and as it was when the call was entered
played(t) == sprites[t][call[t].anim]
entry_sprite(t) ==
    [played(t) EXCEPT !.timer = call[t].timer0, !.frame_pos = call[t].pos0]
entry_duration(t) == duration_of(entry_sprite(t))

NoExplicitDuration(s) == \A i \in DOMAIN s.frames : ~is_some(s.frames[i].duration)

RECURSIVE CellCount(_)
CellCount(pixels) ==
    IF pixels = << >> THEN 0 ELSE Len(Head(pixels)) + CellCount(Tail(pixels))

\* C1: for a sprite of N frames without explicit durations, started at
\* frame_pos = 0 and timer = 0, after k play calls that each had
\* delta > 1/N the frame_pos is k mod N: each call advanced exactly one frame
\* and the N-th call is back at 0.
C1_CyclicAdvance ==
    \A t \in Threads :
        (call[t].streak >= 0 /\ NoExplicitDuration(played(t)))
            => played(t).frame_pos = call[t].streak % Len(played(t).frames)

C1_Witness ==
    /\ call[1].streak = Len(played(1).frames)
    /\ Len(played(1).frames) >= 2
    /\ NoExplicitDuration(played(1))
    /\ played(1).frame_pos = 0
    /\ call[1].result = "Ok"

\* C2 as claimed: a play call whose delta is below the duration of the
\* current frame leaves frame_pos unchanged and adds delta to timer.
C2_AsClaimed ==
    \A t \in Threads :
        (CalledPlay(t) /\ call[t].delta < entry_duration(t))
            => /\ played(t).frame_pos = call[t].pos0
               /\ played(t).timer = call[t].timer0 + call[t].delta

\* C2 amended: a play call for which timer + delta stays below the duration
\* of the current frame leaves frame_pos unchanged and adds delta to timer.
C2_BelowDuration ==
    \A t \in Threads :
        (CalledPlay(t) /\ call[t].timer0 + call[t].delta < entry_duration(t))
            => /\ played(t).frame_pos = call[t].pos0
               /\ played(t).timer = call[t].timer0 + call[t].delta

C2_Witness ==
    /\ CalledPlay(1)
    /\ call[1].timer0 > 0
    /\ call[1].delta > 0
    /\ call[1].timer0 + call[1].delta < entry_duration(1)
    /\ played(1).timer = call[1].timer0 + call[1].delta
    /\ call[1].result = "Ok"

\* a play call that returned Ok cleared once, drew every cell of the
\* current frame and rendered once
Redrawn(t) ==
    call[t].result = "Ok"
        => /\ call[t].nclear = 1
           /\ call[t].nrender = 1
           /\ call[t].ncells = CellCount(current_frame(t).pixels)

\* C3 as claimed: in every state reached by earlier play calls, a play
\* call with delta = 0 changes neither frame_pos nor timer, and still clears,
\* draws and renders.
C3_AsClaimed ==
    \A t \in Threads :
        (CalledPlay(t) /\ call[t].delta = 0)
            => /\ played(t).frame_pos = call[t].pos0
               /\ played(t).timer = call[t].timer0
               /\ Redrawn(t)

\* C3 amended: a play call with delta = 0 entered while timer is below the
\* duration of the current frame changes neither frame_pos nor timer; and a
\* play call with delta = 0 that returns Ok has cleared, drawn the current
\* frame and rendered.
C3_ZeroDelta ==
    \A t \in Threads :
        (CalledPlay(t) /\ call[t].delta = 0)
            => /\ (call[t].timer0 < entry_duration(t)
                     => /\ played(t).frame_pos = call[t].pos0
                        /\ played(t).timer = call[t].timer0)
               /\ Redrawn(t)

C3_Witness ==
    /\ CalledPlay(1)
    /\ call[1].delta = 0
    /\ call[1].timer0 > 0
    /\ call[1].timer0 < entry_duration(1)
    /\ played(1).timer = call[1].timer0
    /\ call[1].result = "Ok"
    /\ call[1].nrender = 1

\* C4: one play call advances frame_pos by at most one frame however large
\* delta is; when it advances, timer becomes old timer + delta - duration
\* (the remainder is carried, not reset) and frame_pos wraps to 0 after the
\* last frame; when it does not advance, timer becomes old timer + delta.
C4_SingleStepCarry ==
    \A t \in Threads :
        CalledPlay(t)
            => LET n == Len(played(t).frames)
                   sum == call[t].timer0 + call[t].delta
               IN  IF sum >= entry_duration(t)
                   THEN /\ played(t).frame_pos = (call[t].pos0 + 1) % n
                        /\ played(t).timer = sum - entry_duration(t)
                   ELSE /\ played(t).frame_pos = call[t].pos0
                        /\ played(t).timer = sum

C4_Witness ==
    /\ CalledPlay(1)
    /\ Len(played(1).frames) >= 2
    /\ call[1].pos0 = Len(played(1).frames) - 1
    /\ played(1).frame_pos = 0
    /\ call[1].delta >= 2 * entry_duration(1)
    /\ played(1).timer = call[1].timer0 + call[1].delta - entry_duration(1)
    /\ played(1).timer >= duration_of(played(1))

\* C5: every play call that returns Ok has made exactly one clear, then the
\* draws of all cells of the current frame, then exactly one render: no cell
\* is drawn before the clear, and after the render the call has returned.
C5_ClearDrawRender ==
    \A t \in Threads :
        /\ Redrawn(t)
        /\ call[t].nclear <= 1
        /\ call[t].nrender <= 1
        /\ (call[t].ncells > 0 \/ call[t].pi > 1) => call[t].nclear = 1
        /\ call[t].nrender > 0
             => /\ pc[t] = "idle"
                /\ call[t].nclear = 1
                /\ call[t].pi = Len(current_frame(t).pixels) + 1

C5_Witness ==
    /\ call[2].result = "Ok"
    /\ call[2].mirror = "FlipHorizontal"
    /\ call[2].nclear = 1
    /\ call[2].nrender = 1
    /\ call[2].ncells = 1

\* C6: a thread is between its clear and its render exactly while it holds
\* the screen lock, so no two play calls are between clear and render at the
\* same time, and a thread that has returned from play (Ok, or the error of
\* lock, clear or render) or has not yet locked does not hold the lock.
InCritical(t) == pc[t] \in {"clear", "draw"}

C6_ScreenLock ==
    /\ \A t \in Threads : InCritical(t) <=> lock = t
    /\ \A t, u \in Threads : (t # u) => ~(InCritical(t) /\ InCritical(u))

C6_Witness ==
    /\ pc[1] = "draw"
    /\ call[1].ncells = 1
    /\ lock = 1
    /\ pc[2] = "lock"

(***************************************************************************)
(* Properties of GameState::update, under Spec.                            *)
(***************************************************************************)
\* the step of update that polls the channel and enters play
PollStep == gpc = "tick" /\ gpc' = "playing"

\* that step calls selector a and enters its play with mirror mode m
Plays(a, m) ==
    /\ call'[GameThread].anim = a
    /\ call'[GameThread].mirror = m
    /\ animation_trigerred' = a
    /\ pc'[GameThread] = "lock"

\* C7: in update the input (-1,0) plays side-walk with FlipVertical, (1,0)
\* side-walk unmirrored, (0,1) front-walk unmirrored, (0,-1) back-walk
\* unmirrored, and one animation only is played in the tick: the sprites of
\* the other three selectors stay as they were.
C7_WalkSelection ==
    [][PollStep =>
          /\ (input' = Some(Coordinate(-1, 0))) => Plays("side", "FlipVertical")
          /\ (input' = Some(Coordinate(1, 0))) => Plays("side", "None")
          /\ (input' = Some(Coordinate(0, 1))) => Plays("front", "None")
          /\ (input' = Some(Coordinate(0, -1))) => Plays("back", "None")
          /\ \A b \in Anims \ {call'[GameThread].anim} :
                sprites'[GameThread][b] = sprites[GameThread][b]
      ]_vars

C7_Witness ==
    /\ gpc = "playing"
    /\ input = Some(Coordinate(-1, 0))
    /\ call[GameThread].anim = "side"
    /\ call[GameThread].mirror = "FlipVertical"
    /\ call[GameThread].result = "Ok"

AxisInputs ==
    {Coordinate(-1, 0), Coordinate(1, 0), Coordinate(0, 1), Coordinate(0, -1)}

\* C8 as claimed: every input other than (-1,0), (1,0), (0,1), (0,-1), the
\* diagonals included, and a tick with no input play idle.
C8_AsClaimed ==
    (gpc = "playing" /\ (input = None \/ unwrap(input) \notin AxisInputs))
        => call[GameThread].anim = "idle"

\* C8 amended: a tick with no input and an input whose x and y are both
\* other than 1 and -1 (so (0,0)) play idle, unmirrored; a diagonal plays
\* side-walk, mirrored with FlipVertical when its x is -1 and unmirrored when
\* its x is 1.
C8_IdleSelection ==
    gpc = "playing"
        => /\ (input = None \/ (unwrap(input).x \notin {-1, 1} /\ unwrap(input).y \notin {-1, 1}))
                => /\ call[GameThread].anim = "idle"
                   /\ call[GameThread].mirror = "None"
                   /\ animation_trigerred = "idle"
           /\ (input # None /\ unwrap(input).x = -1 /\ unwrap(input).y # 0)
                => /\ call[GameThread].anim = "side"
                   /\ call[GameThread].mirror = "FlipVertical"
           /\ (input # None /\ unwrap(input).x = 1 /\ unwrap(input).y # 0)
                => /\ call[GameThread].anim = "side"
                   /\ call[GameThread].mirror = "None"

C8_Witness ==
    /\ gpc = "playing"
    /\ input = Some(Coordinate(0, 0))
    /\ call[GameThread].anim = "idle"
    /\ animation_trigerred = "idle"
    /\ call[GameThread].result = "Ok"

\* C9: when update receives the vector v, player_pos becomes
\* player_pos + v * player_speed * delta on both axes, delta being the value
\* the previous tick recorded, and this new position is the offset (and that
\* delta the delta) of the play call of the same tick.
C9_MovementLaw ==
    [][(PollStep /\ input' # None) =>
          /\ player_pos'.x = player_pos.x + unwrap(input').x * player_speed * delta
          /\ player_pos'.y = player_pos.y + unwrap(input').y * player_speed * delta
          /\ call'[GameThread].offset = player_pos'
          /\ call'[GameThread].delta = delta
      ]_vars

\* position (0,0), speed 10, delta 0.5 s, input (1,0): position (5,0)
C9_Witness ==
    /\ gpc = "playing"
    /\ input = Some(Coordinate(1, 0))
    /\ player_speed = 10
    /\ delta = TicksPerSecond \div 2
    /\ player_pos = Coordinate(5 * TicksPerSecond, 0)
    /\ call[GameThread].offset = player_pos

\* C10: a tick of update that finds the channel empty leaves player_pos
\* unchanged and plays idle, also after a tick that received a vector.
C10_NoRepeat ==
    [][(PollStep /\ chan = << >>) =>
          /\ player_pos' = player_pos
          /\ input' = None
          /\ Plays("idle", "None")
      ]_vars

C10_Witness ==
    /\ gpc = "playing"
    /\ input = None
    /\ published = 1
    /\ chan = << >>
    /\ player_pos # Coordinate(0, 0)
    /\ call[GameThread].anim = "idle"
    /\ call[GameThread].offset = player_pos

\* the step in which an update that played without error returns Ok
FinishOk == gpc = "playing" /\ gpc' = "tick" /\ call[GameThread].result = "Ok"

\* C11: an update that returns Ok records a delta of at least the frame
\* budget: when its work took less than the budget it sleeps at least the
\* remainder, and when its work took the budget or longer it sleeps not at
\* all and records the time the work took.
C11_FramePacing ==
    [][FinishOk =>
          /\ delta' >= fps
          /\ pace'.elapsed < fps
                => /\ pace'.slept >= fps - pace'.elapsed
                   /\ delta' = pace'.elapsed + pace'.slept
          /\ pace'.elapsed >= fps
                => /\ pace'.slept = 0
                   /\ delta' = pace'.elapsed
      ]_vars

\* a tick whose work took longer than the budget, recorded in full
C11_Witness ==
    /\ gpc = "tick"
    /\ pace.elapsed > fps
    /\ pace.slept = 0
    /\ delta = pace.elapsed
    /\ sprites[GameThread]["idle"].timer > 0

(***************************************************************************)
(* Properties of Pixel::draw, under SpecDraw.                              *)
(***************************************************************************)
\* the pixel the last draw call was made on
drawn_pixel == op.before.frame.pixels[op.pi]

\* byte j (0 R, 1 G, 2 B, 3 alpha) a colour stands for
ColourByte(color, j) ==
    IF j = 3 THEN (IF color[1] = "RGB" THEN 255 ELSE color[5]) ELSE color[j + 2]

OffScreen(xy) == xy[1] < 0 \/ xy[2] < 0 \/ xy[1] >= ScreenW \/ xy[2] >= ScreenH

\* index of the first of the four bytes of the screen cell (column, row)
BlockOf(xy) == (xy[2] * ScreenW + xy[1]) * 4

\* where the placement T puts cell k of the drawn pixel
PlacedBy(T(_, _, _), k) == T(drawn_pixel[k], op.arg, op.offset)

\* the cells the call got through that T places on the screen cell of byte i
Covering(T(_, _, _), i) ==
    {k \in 1 .. op.cells :
        /\ ~OffScreen(PlacedBy(T, k))
        /\ i - BlockOf(PlacedBy(T, k)) \in 0 .. 3}

MaxOf(S) == CHOOSE k \in S : \A j \in S : j <= k

\* the buffer is the one before the call, with the four bytes R, G, B, alpha
\* of every cell the call got through written at the block T places it on
\* (the later cell where two share a block) and no other byte changed
DrawnAs(T(_, _, _)) ==
    \A i \in DOMAIN buffer :
        LET c == Covering(T, i)
        IN  buffer[i] = IF c = {} THEN op.before.buffer[i]
                        ELSE ColourByte(drawn_pixel[MaxOf(c)][1],
                                        i - BlockOf(PlacedBy(T, MaxOf(c))))

\* C12: a draw writes, for each cell whose final position (x, y) is on the
\* screen, exactly the 4 bytes from index (y * width + x) * 4: R, G, B and
\* alpha, alpha being 255 for an RGB colour and the colour's alpha for RGBA;
\* every other byte of the buffer is as before the call.
C12_FourBytes == op.name = "draw" => DrawnAs(cell_target)

C12_Witness ==
    /\ op.name = "draw"
    /\ op.n = 2
    /\ ~op.panicked
    /\ Len(drawn_pixel) = 2
    /\ drawn_pixel[2][1] = RGBA(1, 2, 3, 4)
    /\ cell_target(drawn_pixel[2], op.arg, op.offset) = << 1, 1 >>
    /\ op.before.buffer[BlockOf(<< 1, 1 >>) + 3] = 0
    /\ buffer[BlockOf(<< 1, 1 >>) + 3] = 4
    /\ op.before.buffer[BlockOf(<< 2, 2 >>) + 3] = 4
    /\ buffer[BlockOf(<< 2, 2 >>) + 3] = 4

\* the position the cell would have with a subtraction that cannot wrap
MathTarget(cell, mirrorv, offset) ==
    IF mirrorv[1] = "FlipVertical"
    THEN << round(offset.x + (mirrorv[2] - cell[2]) * TicksPerSecond),
            round(offset.y + cell[3] * TicksPerSecond) >>
    ELSE IF mirrorv[1] = "FlipHorizontal"
    THEN << round(offset.x + cell[2] * TicksPerSecond),
            round(offset.y + (mirrorv[2] - cell[3]) * TicksPerSecond) >>
    ELSE << round(offset.x + cell[2] * TicksPerSecond),
            round(offset.y + cell[3] * TicksPerSecond) >>

\* the buffer is what drawing only the cells that are on the screen gives
OffScreenSkipped ==
    LET Lands(cell) == ~OffScreen(cell_target(cell, op.arg, op.offset))
        kept == SelectSeq(SubSeq(drawn_pixel, 1, op.cells), Lands)
    IN  buffer = Pixel_draw(op.before.buffer, kept, 1, op.arg, op.offset, FALSE).buffer

\* C13 as claimed: a cell whose final position is off the screen never makes
\* draw panic, writes nothing, and the cells after it are drawn.
C13_AsClaimed ==
    op.name = "draw"
        => /\ op.panicked
                => ~OffScreen(MathTarget(drawn_pixel[op.cells + 1], op.arg, op.offset))
           /\ ~op.panicked => op.cells = Len(drawn_pixel)
           /\ OffScreenSkipped

\* C13 amended: draw panics only at a cell whose mirror subtraction goes
\* below zero (a build with overflow checks); every other draw goes through
\* all cells of the pixel, and a cell whose final position is off the screen
\* writes no byte: the buffer is what the cells on the screen alone give.
C13_OffScreenSkipped ==
    op.name = "draw"
        => /\ op.panicked => cell_underflows(drawn_pixel[op.cells + 1], op.arg)
           /\ ~op.panicked => op.cells = Len(drawn_pixel)
           /\ OffScreenSkipped

\* the first cell is off the screen, the second one is drawn
C13_Witness ==
    /\ op.name = "draw"
    /\ ~op.panicked
    /\ op.cells = 2
    /\ OffScreen(cell_target(drawn_pixel[1], op.arg, op.offset))
    /\ ~OffScreen(cell_target(drawn_pixel[2], op.arg, op.offset))
    /\ buffer # op.before.buffer

\* the position after the mirror as the u16 subtraction computes it when it
\* does not panic, then the offset, then the rounding
WrappedTarget(cell, mirrorv, offset) ==
    LET wrap(d) == IF d < 0 THEN d + U16 ELSE d
    IN  IF mirrorv[1] = "FlipVertical"
        THEN << round(offset.x + wrap(mirrorv[2] - cell[2]) * TicksPerSecond),
                round(offset.y + cell[3] * TicksPerSecond) >>
        ELSE IF mirrorv[1] = "FlipHorizontal"
        THEN << round(offset.x + cell[2] * TicksPerSecond),
                round(offset.y + wrap(mirrorv[2] - cell[3]) * TicksPerSecond) >>
        ELSE << round(offset.x + cell[2] * TicksPerSecond),
                round(offset.y + cell[3] * TicksPerSecond) >>

\* where the cell would be drawn without the mirror
Unmirrored(cell, mirrorv, offset) ==
    << round(offset.x + cell[2] * TicksPerSecond),
       round(offset.y + cell[3] * TicksPerSecond) >>

\* C14 as claimed: every cell of a draw lands at round(ox + (w - x)),
\* round(oy + y) with FlipVertical(w), at round(ox + x), round(oy + (h - y))
\* with FlipHorizontal(h), at round(ox + x), round(oy + y) with None; and a
\* mirrored draw leaves the unmirrored position of each cell as it was.
C14_AsClaimed ==
    op.name = "draw"
        => /\ ~op.panicked
           /\ DrawnAs(MathTarget)
           /\ op.arg[1] # "None"
                => \A k \in 1 .. Len(drawn_pixel), j \in 0 .. 3 :
                      ~OffScreen(PlacedBy(Unmirrored, k))
                         => buffer[BlockOf(PlacedBy(Unmirrored, k)) + j]
                              = op.before.buffer[BlockOf(PlacedBy(Unmirrored, k)) + j]

\* C14 amended: the mirror is applied to the raw coordinate, then the offset
\* is added: a cell at (x, y) with x <= w lands at round(ox + (w - x)),
\* round(oy + y) with FlipVertical(w), with y <= h at round(ox + x),
\* round(oy + (h - y)) with FlipHorizontal(h), and at round(ox + x),
\* round(oy + y) with None; with x > w (y > h) the subtraction goes below
\* zero: draw panics at that cell or uses w - x + 65536 (h - y + 65536).  No
\* other position is written, so the unmirrored position is written only
\* where a cell of the pixel lands on it.
C14_MirrorThenOffset ==
    op.name = "draw"
        => /\ op.panicked => cell_underflows(drawn_pixel[op.cells + 1], op.arg)
           /\ DrawnAs(WrappedTarget)
           /\ \A k \in 1 .. op.cells :
                 ~cell_underflows(drawn_pixel[k], op.arg)
                    => PlacedBy(WrappedTarget, k) = PlacedBy(MathTarget, k)

\* FlipVertical(2) and one cell to the left: the red cell at column 0 lands
\* on column 1, its unmirrored position is off the screen
C14_Witness ==
    /\ op.name = "draw"
    /\ the_frame = FrameC
    /\ op.pi = 1
    /\ op.arg = << "FlipVertical", 2 >>
    /\ op.offset = Coordinate(0 - TicksPerSecond, 0)
    /\ buffer[BlockOf(<< 1, 1 >>)] = 255
    /\ buffer[BlockOf(<< 0, 1 >>) + 3] = 4

(***************************************************************************)
(* Properties of Frame, under SpecFrame.                                   *)
(***************************************************************************)
\* the stored width and height were computed by the last call
Fresh == op.name \in {"Frame::new", "resize"}

\* the values the cells of frame f have on an axis (2 is x, 3 is y)
AxisValues(f, axis) ==
    UNION {{f.pixels[pi][k][axis] : k \in DOMAIN f.pixels[pi]} : pi \in DOMAIN f.pixels}

\* C15: in a frame whose width and height come from Frame::new or from a
\* resize after the last pixel mutation, for every cell the subtraction
\* extent - coordinate that play makes with FlipVertical (width - x) and
\* with FlipHorizontal (height - y) is not below zero, the mirrored value is
\* in [0, extent], and mirroring it again gives the coordinate back.
C15_NoUnderflow ==
    Fresh =>
        \A m \in {"FlipVertical", "FlipHorizontal"} :
            LET extent == mirror_value(m, the_frame)[2]
            IN  \A c \in AxisValues(the_frame, IF m = "FlipVertical" THEN 2 ELSE 3) :
                    /\ extent - c >= 0
                    /\ ~mirror_underflows(c, extent)
                    /\ mirror(c, extent) \in 0 .. extent
                    /\ mirror(mirror(c, extent), extent) = c

\* a resize after a move_pos that had put a cell beyond the stored width
C15_Witness ==
    /\ op.name = "resize"
    /\ \E c \in AxisValues(the_frame, 2) : c > op.before.frame.width
    /\ the_frame.width = 5
    /\ Len(the_frame.pixels) = 2

\* C16: after Frame::new and after resize, width is the largest x and height
\* the largest y over all cells of all pixels of the frame (the coordinate
\* itself, not that plus one and not the number of cells), and both are 0
\* when the frame has no cell.
C16_MaxCoordinate ==
    Fresh =>
        /\ the_frame.width =
              IF AxisValues(the_frame, 2) = {} THEN 0 ELSE MaxOf(AxisValues(the_frame, 2))
        /\ the_frame.height =
              IF AxisValues(the_frame, 3) = {} THEN 0 ELSE MaxOf(AxisValues(the_frame, 3))

C16_Witness ==
    /\ op.name = "Frame::new"
    /\ Len(the_frame.pixels) = 2
    /\ CellCount(the_frame.pixels) = 4
    /\ the_frame.width = 3
    /\ the_frame.height = 2

\* C17: move_pos, change_color and the push of a pixel leave the stored
\* width and height as they are, also when a cell is then beyond them; and
\* a resize that follows Frame::new or a resize changes nothing.
C17_OnlyResize ==
    [][/\ op'.name \in {"move_pos", "change_color", "Pixel::new"}
            => /\ the_frame'.width = the_frame.width
               /\ the_frame'.height = the_frame.height
       /\ (Fresh /\ op'.name = "resize") => the_frame' = the_frame
      ]_vars

\* a move_pos has put a cell beyond the stored width
C17_Witness ==
    /\ op.name = "move_pos"
    /\ op.before.frame.width = 3
    /\ the_frame.width = 3
    /\ 5 \in AxisValues(the_frame, 2)

(***************************************************************************)
(* Properties of Pixel, under SpecPixel.                                   *)
(***************************************************************************)
\* the pixel the last call worked on, before and after
old_pixel == op.before.frame.pixels[op.pi]
new_pixel == the_frame.pixels[op.pi]

\* cell i (from 0) of Pixel::new(color, x, y) as the claim has it
ClaimedCell(color, x, y, i) ==
    << IF color.scheme = "CheckPattern" /\ i % 2 = 1 THEN color.b ELSE color.a,
       IF color.scheme # "Standard" /\ color.range[1] = "Horizontal" THEN x + i ELSE x,
       IF color.scheme # "Standard" /\ color.range[1] = "Vertical" THEN y + i ELSE y >>

ClaimedCount(color) == IF color.scheme = "Standard" THEN 1 ELSE color.range[2]

\* C18: Pixel::new(scheme, x, y) yields one cell at (x, y) for Standard, and
\* for CheckPattern and Stroke with count n exactly n cells, cell i at
\* (x + i, y) for Horizontal and (x, y + i) for Vertical, in increasing i,
\* with colour a for even i and b for odd i (CheckPattern) or the stroke
\* colour (Stroke); a count of 0 yields no cell.
C18_AsClaimed ==
    op.name = "Pixel::new"
        => /\ ~op.panicked
           /\ Len(new_pixel) = ClaimedCount(op.arg[1])
           /\ \A k \in 1 .. ClaimedCount(op.arg[1]) :
                 new_pixel[k] = ClaimedCell(op.arg[1], op.arg[2], op.arg[3], k - 1)

\* C19: change_color and move_pos with index >= cell count return nothing
\* and leave the pixel as it is; with index in range they return the
\* colour, or the value of the axis named by dir, the cell had, and set only
\* that colour, or only that axis of that cell to the value dir carries; the
\* number of cells stays the same.
C19_EditCell ==
    op.name \in {"move_pos", "change_color"}
        => /\ Len(new_pixel) = Len(old_pixel)
           /\ IF op.index >= Len(old_pixel)
              THEN op.ret = None /\ new_pixel = old_pixel
              ELSE LET k == op.index + 1
                       was == old_pixel[k]
                   IN  /\ \A j \in 1 .. Len(old_pixel) : j # k => new_pixel[j] = old_pixel[j]
                       /\ op.name = "change_color"
                            => /\ op.ret = Some(was[1])
                               /\ new_pixel[k] = << op.arg, was[2], was[3] >>
                       /\ (op.name = "move_pos" /\ op.arg[1] = "Horizontal")
                            => /\ op.ret = Some(was[2])
                               /\ new_pixel[k] = << was[1], op.arg[2], was[3] >>
                       /\ (op.name = "move_pos" /\ op.arg[1] = "Vertical")
                            => /\ op.ret = Some(was[3])
                               /\ new_pixel[k] = << was[1], was[2], op.arg[2] >>

\* the second cell, at x = 1, is moved to x = 1: it stays, it is not at 2
C19_Witness ==
    /\ op.name = "move_pos"
    /\ op.index = 1
    /\ Len(old_pixel) = 2
    /\ old_pixel[2][2] = 1
    /\ op.arg = << "Horizontal", 1 >>
    /\ op.ret = Some(1)
    /\ new_pixel[2][2] = 1

(***************************************************************************)
(* event.rs: EventHandler.  A subscriber channel is a record: owner is the *)
(* subscriber object that was handed the receiver, queue the coordinates   *)
(* sent and not yet taken, recv the coordinates taken so far, open whether *)
(* a receiver of the channel is still alive.  evt.pc is "setup" until      *)
(* start, "running" between events, "sending" inside the loop of lines     *)
(* 92-94 with evt.i the next subscriber, "panicked" after a failed unwrap. *)
(***************************************************************************)
eventRest ==
    << buffer, spriteVars, playVars, lock, poisoned, gameVars, chanVars, rendVars,
       inputVars >>

SubscriberIds == 1 .. MaxSubscribers

\* input.rs lines 60-92: the coordinates to_coordinate returns
KeyCoordinates == Inputs \ {Coordinate(0, 0)}

\* event.rs lines 131-135, game.rs lines 142-146: a new unbounded channel; the
\* subscriber stores the receiver in place of the one it held, which is
\* dropped; the sender is pushed.
\* variant: a subscriber that holds a receiver keeps it and drops the new one
subscribe_coordinate_first(who) ==
    /\ evt.pc = "setup"
    /\ Len(subscribers) < MaxSubscribers
    /\ subscribers' =
         Append(subscribers,
                [owner |-> who, queue |-> << >>, recv |-> << >>,
                 open |-> \A s \in DOMAIN subscribers :
                             ~(subscribers[s].owner = who /\ subscribers[s].open)])
    /\ UNCHANGED << evt, eventRest >>

subscribe_coordinate(who) ==
    /\ evt.pc = "setup"
    /\ Len(subscribers) < MaxSubscribers
    /\ subscribers' =
         Append([s \in DOMAIN subscribers |->
                    IF subscribers[s].owner = who
                    THEN [subscribers[s] EXCEPT !.open = FALSE, !.queue = << >>]
                    ELSE subscribers[s]],
                [owner |-> who, queue |-> << >>, recv |-> << >>, open |-> TRUE])
    /\ UNCHANGED << evt, eventRest >>

\* event.rs lines 78-79: start consumes the handler, no subscriber is added
\* after it
EventHandler_start ==
    /\ evt.pc = "setup"
    /\ evt' = [evt EXCEPT !.pc = "running"]
    /\ UNCHANGED << subscribers, eventRest >>

\* event.rs lines 85-91: a keyboard event that to_coordinate maps to Some(c)
KeyboardInput(c) ==
    /\ evt.pc = "running"
    /\ Len(evt.log) < MaxEvents
    /\ evt' = [pc |-> IF subscribers = << >> THEN "running" ELSE "sending",
               log |-> Append(evt.log, c),
               i |-> IF subscribers = << >> THEN 0 ELSE 1]
    /\ UNCHANGED << subscribers, eventRest >>

\* event.rs line 93: sub.try_send(c).unwrap() for the next subscriber; the
\* channel is unbounded, so the send fails only when no receiver is left,
\* and then unwrap panics inside the event loop
try_send ==
    /\ evt.pc = "sending"
    /\ IF subscribers[evt.i].open
       THEN /\ subscribers' = [subscribers EXCEPT
                                 ![evt.i].queue = Append(@, evt.log[Len(evt.log)])]
            /\ evt' = IF evt.i = Len(subscribers)
                      THEN [evt EXCEPT !.pc = "running", !.i = 0]
                      ELSE [evt EXCEPT !.i = evt.i + 1]
       ELSE /\ evt' = [evt EXCEPT !.pc = "panicked"]
            /\ UNCHANGED subscribers
    /\ UNCHANGED eventRest

\* game.rs line 75: the subscriber takes the oldest coordinate of its channel
Subscriber_try_recv(s) ==
    /\ s \in DOMAIN subscribers
    /\ subscribers[s].open
    /\ subscribers[s].queue # << >>
    /\ subscribers' = [subscribers EXCEPT ![s].recv = Append(@, Head(subscribers[s].queue)),
                                          ![s].queue = Tail(@)]
    /\ UNCHANGED << evt, eventRest >>

\* game.rs lines 61-71: the thread that owns the receiver ends (a panic in
\* update unwinds it) and the receiver is dropped with what it had queued
drop_receiver(s) ==
    /\ s \in DOMAIN subscribers
    /\ subscribers[s].open
    /\ subscribers' = [subscribers EXCEPT ![s].open = FALSE, ![s].queue = << >>]
    /\ UNCHANGED << evt, eventRest >>

NextEvents ==
    \/ \E who \in SubscriberIds : subscribe_coordinate(who)
    \/ EventHandler_start
    \/ \E c \in KeyCoordinates : KeyboardInput(c)
    \/ try_send
    \/ \E s \in SubscriberIds : Subscriber_try_recv(s)
    \/ \E s \in SubscriberIds : drop_receiver(s)

SpecEvents == InitEmpty /\ [][NextEvents]_vars

\* C20: every subscriber registered with subscribe_coordinate receives each
\* coordinate published after its registration exactly once and in publish
\* order, however slowly the other subscribers take theirs: whenever the
\* publisher is not in the middle of a publish, what a subscriber that holds
\* its receiver has taken, followed by what waits in its channel, is the
\* sequence of the coordinates published.
C20_AsClaimed ==
    evt.pc # "sending"
        => \A s \in DOMAIN subscribers :
               subscribers[s].open
                   => subscribers[s].recv \o subscribers[s].queue = evt.log

\* a channel of the handler has lost its receiver
SomeClosed == \E s \in DOMAIN subscribers : ~subscribers[s].open

\* C21: when the channel of one subscriber is closed (its receiver was
\* dropped or replaced), a publish still delivers the coordinate to every
\* other subscriber, and the publisher keeps running and delivers the later
\* coordinates: the event loop never ends in a panic, and between two
\* publishes every subscriber that holds its receiver has got every
\* coordinate published.
C21_AsClaimed ==
    SomeClosed
        => /\ evt.pc # "panicked"
           /\ evt.pc = "running"
                => \A s \in DOMAIN subscribers :
                       subscribers[s].open
                           => Len(subscribers[s].recv) + Len(subscribers[s].queue)
                                = Len(evt.log)

(***************************************************************************)
(* SpecLoop: the loop of GameState::start while the event loop publishes   *)
(* and after it has ended.                                                 *)
(***************************************************************************)
\* event.rs lines 97-100 and 113: the event loop returns (or unwinds) and
\* the handler with its senders is dropped; the channel is disconnected
EventLoopEnds ==
    /\ evt.pc # "exited"
    /\ evt' = [evt EXCEPT !.pc = "exited"]
    /\ UNCHANGED << subscribers, eventRest >>

NextLoop ==
    \/ \E c \in Inputs : evt.pc # "exited" /\ Publish(c)
    \/ EventLoopEnds
    \/ UpdatePoll
    \/ PlayStep(GameThread)
    \/ UpdateFinish

InitLoop ==
    /\ Init
    /\ player_speed = 1

SpecLoop == InitLoop /\ [][NextLoop]_vars

\* the timer the next update would leave is beyond what the model follows
TimerBeyondBound ==
    play_advance(sprites[GameThread][select_animation(try_recv(chan))[1]], delta).timer
        > MaxTimer

\* C22: once started with a subscribed receiver the game loop never leaves
\* its loop: the thread is always before an update or inside one and never
\* panics; a play call that has returned, with Ok or with the error of the
\* screen lock, of clear or of render, lets update return; and whenever an
\* update has returned the next one can start, also when the publisher of
\* the input has gone away.
C22_LoopGoesOn ==
    /\ gpc \in {"tick", "playing"}
    /\ pc[GameThread] # "panicked"
    /\ (gpc = "playing" /\ pc[GameThread] = "idle") => ENABLED UpdateFinish
    /\ gpc = "tick" => (TimerBeyondBound \/ ENABLED UpdatePoll)

\* an update has returned an error (delta is that of an earlier Ok update,
\* and no pacing was recorded) after the publisher has gone, and the next
\* update can start
C22_Witness ==
    /\ evt.pc = "exited"
    /\ gpc = "tick"
    /\ delta > 0
    /\ pace = NoPace
    /\ ENABLED UpdatePoll

(***************************************************************************)
(* SpecInput: key events in any order, presses of keys already held and   *)
(* releases of keys not held included, and rebinding of the inputs.        *)
(***************************************************************************)
inputRest ==
    << buffer, spriteVars, playVars, lock, poisoned, gameVars, chanVars, rendVars,
       subscribers, evt >>

\* input.rs lines 50-97
ToCoordinate(code, state) ==
    /\ state = "Pressed"
         => (code \in input_handler.mapping
               \/ Cardinality(input_handler.mapping) < MaxHeld)
    /\ LET r == to_coordinate(input_handler, [code |-> code, state |-> state])
       IN  /\ input_handler' = r.handler
           /\ keyed' = [code |-> code, state |-> state, ret |-> r.ret,
                        held |-> input_handler.mapping]
    /\ UNCHANGED inputRest

\* input.rs lines 105-107
UpdateBinding(g, key) ==
    /\ Cardinality({a \in GameInput :
                       update_binding(input_handler, g, key).binding[a]
                           # GameInputHandler_default.binding[a]}) <= MaxRebinds
    /\ input_handler' = update_binding(input_handler, g, key)
    /\ keyed' = NoKey
    /\ UNCHANGED inputRest

NextInput ==
    \/ \E code \in KeyCode, state \in {"Pressed", "Released"} : ToCoordinate(code, state)
    \/ \E g \in GameInput, key \in KeyCode : UpdateBinding(g, key)

SpecInput == InitEmpty /\ [][NextInput]_vars

(***************************************************************************)
(* Properties of GameInputHandler::to_coordinate, under SpecInput.         *)
(***************************************************************************)
\* the direction of a movement input
Direction(g) ==
    IF g = "PlayerMoveUp" THEN Coordinate(0, -1)
    ELSE IF g = "PlayerMoveLeft" THEN Coordinate(-1, 0)
    ELSE IF g = "PlayerMoveRight" THEN Coordinate(1, 0)
    ELSE Coordinate(0, 1)

Perpendicular(g, h) == Direction(g).x * Direction(h).x + Direction(g).y * Direction(h).y = 0

\* the keys bound to a movement input
BoundKeys == {input_handler.binding[g] : g \in GameInput}

\* the four inputs have four different keys, and an arrow key is bound to
\* no other direction than its own
ProperBinding ==
    /\ \A g, h \in GameInput :
           input_handler.binding[g] = input_handler.binding[h] => g = h
    /\ \A g \in GameInput :
           input_handler.binding[g] \in Arrows
               => input_handler.binding[g] = GameInputHandler_default.binding[g]

\* C23: after any sequence of key press and release events, every
\* coordinate to_coordinate returns has x and y in {-1, 0, 1} and is not
\* (0, 0).
C23_UnitVectors ==
    is_some(keyed.ret)
        => /\ unwrap(keyed.ret).x \in {-1, 0, 1}
           /\ unwrap(keyed.ret).y \in {-1, 0, 1}
           /\ unwrap(keyed.ret) # Coordinate(0, 0)

\* the press of a second key
C23_Witness ==
    /\ keyed.state = "Pressed"
    /\ Cardinality(input_handler.mapping) = 2
    /\ keyed.held # {}
    /\ keyed.ret = Some(Coordinate(1, -1))

\* the press of the key of input g with no other key held
PressedAlone(g) ==
    /\ keyed.state = "Pressed"
    /\ keyed.code = input_handler.binding[g]
    /\ keyed.held \subseteq {keyed.code}

\* the press of the key of input h while only the key of input g, of the
\* perpendicular axis, is held
PressedSecond(g, h) ==
    /\ keyed.state = "Pressed"
    /\ keyed.code = input_handler.binding[h]
    /\ keyed.held = {input_handler.binding[g]}
    /\ keyed.code # input_handler.binding[g]
    /\ Perpendicular(g, h)

\* C24 as claimed: with no other key held, the press of the key bound to
\* Left, Right, Up or Down returns (-1,0), (1,0), (0,-1) or (0,1); the press
\* of a second bound key, of the perpendicular axis, while the first is
\* still held returns the diagonal of both directions.
C24_AsClaimed ==
    \A g, h \in GameInput :
        /\ PressedAlone(g) => keyed.ret = Some(Direction(g))
        /\ PressedSecond(g, h)
             => keyed.ret = Some(CoordinateAdd(Direction(g), Direction(h)))

\* C24 amended: the same, when the four inputs are bound to four different
\* keys and no arrow key is bound to another direction than its own.
C24_BoundKeys ==
    ProperBinding
        => \A g, h \in GameInput :
               /\ PressedAlone(g) => keyed.ret = Some(Direction(g))
               /\ PressedSecond(g, h)
                    => keyed.ret = Some(CoordinateAdd(Direction(g), Direction(h)))

\* Up is rebound to KeyW; ArrowRight is held and KeyW is pressed
C24_Witness ==
    /\ ProperBinding
    /\ input_handler.binding["PlayerMoveUp"] = "KeyW"
    /\ PressedSecond("PlayerMoveRight", "PlayerMoveUp")
    /\ keyed.ret = Some(Coordinate(1, -1))

\* C25: for every key and every held set, to_coordinate on a Released event
\* returns no coordinate and takes that key, and no other, out of the held
\* set, also when other movement keys are still held.
C25_ReleaseClears ==
    keyed.state = "Released"
        => /\ keyed.ret = None
           /\ input_handler.mapping = keyed.held \ {keyed.code}

\* a movement key is released while another movement key stays held
C25_Witness ==
    /\ keyed.state = "Released"
    /\ keyed.code \in keyed.held
    /\ keyed.code \in BoundKeys
    /\ input_handler.mapping \cap BoundKeys # {}
    /\ keyed.ret = None

\* the press of a key that is bound to no movement input and is no arrow
PressedUnbound ==
    /\ keyed.state = "Pressed"
    /\ keyed.code \notin BoundKeys
    /\ keyed.code \notin Arrows

MirrorFrames == {FrameA, FrameC, FrameD, FrameStale}

InitMirror ==
    /\ \E fs \in [1 .. 2 -> MirrorFrames] :
         sprites = [t \in Threads |->
                      [MockCharacter_new EXCEPT !["idle"] =
                          IF t = 1 THEN Sprite_default(fs) ELSE @]]
    /\ InitRest
    /\ player_speed = 1

NextMirror ==
    \/ Play(1, "idle", SharedDeltas, MirrorDirection, {Coordinate(0, 0)})
    \/ PlayStep(1)

SpecMirror == InitMirror /\ [][NextMirror]_vars

(***************************************************************************)
(* Properties of the frame play times and draws.                           *)
(***************************************************************************)
\* the buffer after the pixels are drawn over buf, in order, in a build
\* without overflow checks
RECURSIVE Painted(_, _, _, _)
Painted(buf, pixels, mirrorv, offset) ==
    IF pixels = << >> THEN buf
    ELSE Painted(Pixel_draw(buf, Head(pixels), 1, mirrorv, offset, FALSE).buffer,
                 Tail(pixels), mirrorv, offset)

\* the duration of frame f of a sprite of n frames
FrameDuration(f, n) == IF is_some(f.duration) THEN unwrap(f.duration) ELSE TicksPerSecond \div n

\* C27 (under SpecPlay): play compares the timer with the duration of the
\* frame indexed when the call is entered, the explicit duration of that
\* frame or else 1/N seconds for N frames, and so decides whether it
\* advances; the frame it then draws is the one indexed after the advance.
C27_DurationThenDraw ==
    \A t \in Threads :
        CalledPlay(t)
            => LET s == played(t)
                   n == Len(s.frames)
                   d == FrameDuration(s.frames[call[t].pos0 + 1], n)
                   pos == IF call[t].timer0 + call[t].delta >= d
                          THEN (call[t].pos0 + 1) % n ELSE call[t].pos0
               IN  /\ s.frame_pos = pos
                   /\ (call[t].result = "Ok" /\ call[t].mirror = "None")
                        => buffer = Painted(clear(buffer), s.frames[pos + 1].pixels,
                                            << "None", 0 >>, call[t].offset)

\* a sprite of FrameA, without a duration, and FrameB, with one: at
\* timer = 1/2 s = 1/N the call leaves FrameA, though the duration of FrameB
\* is not reached, and draws FrameB
C27_Witness ==
    /\ played(1).frames = << FrameA, FrameB >>
    /\ call[1].pos0 = 0
    /\ call[1].timer0 + call[1].delta = TicksPerSecond \div 2
    /\ call[1].timer0 + call[1].delta < unwrap(FrameB.duration)
    /\ played(1).frame_pos = 1
    /\ call[1].result = "Ok"
    /\ call[1].mirror = "None"
    /\ buffer # Painted(clear(buffer), FrameA.pixels, << "None", 0 >>, call[1].offset)

\* C28 (under SpecMirror): the extent play passes to draw is the stored
\* width (FlipVertical) or the stored height (FlipHorizontal) of the frame
\* it draws in that call, the frame indexed after a possible advance: not
\* that of another frame of the sprite, not that of the screen, not a width
\* or height computed anew from the cells.
C28_ExtentOfDrawnFrame ==
    \A t \in Threads :
        (call[t].result = "Ok" /\ call[t].mirror # "None")
            => LET f == played(t).frames[played(t).frame_pos + 1]
                   extent == IF call[t].mirror = "FlipVertical" THEN f.width ELSE f.height
               IN  buffer = Painted(clear(buffer), f.pixels,
                                    << call[t].mirror, extent >>, call[t].offset)

\* the call went from FrameD, 3 wide, to FrameC, 2 wide, and drew FrameC
\* flipped in its own width: the extent of FrameD gives another picture
C28_Witness ==
    /\ played(1).frames = << FrameD, FrameC >>
    /\ call[1].pos0 = 0
    /\ played(1).frame_pos = 1
    /\ call[1].result = "Ok"
    /\ call[1].mirror = "FlipVertical"
    /\ buffer = Painted(clear(buffer), FrameC.pixels,
                        << "FlipVertical", FrameC.width >>, call[1].offset)
    /\ buffer # Painted(clear(buffer), FrameC.pixels,
                        << "FlipVertical", FrameD.width >>, call[1].offset)

(***************************************************************************)
(* SpecCycle: one caller calls play again and again, each time with a      *)
(* positive delta.  The timer is an f32: a delta of at least one tick      *)
(* makes it grow, a positive delta below half the spacing of the f32       *)
(* values at the timer leaves it as it is (timer + delta == timer).        *)
(***************************************************************************)
CycleDeltas == {1, TicksPerSecond \div 2}

\* sprites of 1 to MaxFrames frames, the first one with a duration of its own
CycleLists == {[i \in 1 .. n |-> IF i = 1 THEN FrameB ELSE FrameA] : n \in 1 .. MaxFrames}

InitCycle ==
    /\ \E fs \in CycleLists :
         sprites = [t \in Threads |->
                      [MockCharacter_new EXCEPT !["idle"] =
                          IF t = 1 THEN Sprite_default(fs) ELSE @]]
    /\ InitRest
    /\ player_speed = 1

\* a call with a delta the timer registers
PlayRegistered == Play(1, "idle", CycleDeltas, {"None"}, PlayOffsets)

\* a call with a positive delta that the addition `self.timer += delta`
\* rounds away; the timer is not 0.0, where every positive delta registers
PlayAbsorbed ==
    /\ pc[1] = "idle"
    /\ sprites[1]["idle"].timer > 0
    /\ sprites' = [sprites EXCEPT ![1]["idle"] = play_advance(sprites[1]["idle"], 0)]
    /\ pc' = [pc EXCEPT ![1] = "lock"]
    /\ call' = [call EXCEPT ![1] =
                  [NoCall EXCEPT !.timer0 = sprites[1]["idle"].timer,
                                 !.pos0 = sprites[1]["idle"].frame_pos,
                                 !.streak = next_streak(call[1].streak, sprites[1]["idle"], 0),
                                 !.absorbed = TRUE]]
    /\ UNCHANGED << screenVars, gameVars, chanVars, rendVars, eventVars >>

PlayCall == PlayRegistered \/ PlayAbsorbed

NextCycle ==
    \/ PlayRegistered
    \/ PlayAbsorbed
    \/ PlayStep(1)

\* the caller goes on calling, and a call that was entered goes on
SpecCycle ==
    InitCycle /\ [][NextCycle]_vars /\ WF_vars(PlayCall) /\ WF_vars(PlayStep(1))

(***************************************************************************)
(* Properties of the cycle of frame indexes.                               *)
(***************************************************************************)
\* frame_pos as a step may leave it: as it is, or the next index, 0 after the
\* last one
NextIndexes(s) == {s.frame_pos, (s.frame_pos + 1) % Len(s.frames)}

NoIndexSkipped == [][sprites'[1]["idle"].frame_pos \in NextIndexes(sprites[1]["idle"])]_vars

\* every frame index of the sprite is shown again and again
EveryIndexRecurs ==
    \A k \in 0 .. (MaxFrames - 1) :
        []<>(k < Len(sprites[1]["idle"].frames) => sprites[1]["idle"].frame_pos = k)

\* C29 as stated (under SpecCycle, where the delta of every call is
\* positive): frame_pos goes through 0, 1, ..., N-1, 0, ... without
\* skipping an index, and every index is shown again and again.
C29_AsClaimed == NoIndexSkipped /\ EveryIndexRecurs

\* C29 (under SpecCycle): when the delta of every call is positive and,
\* again and again, a call has a delta that the timer registers, frame_pos
\* goes through 0, 1, ..., N-1, 0, ... without skipping an index, and every
\* index is shown again and again.
C29_Cycles == NoIndexSkipped /\ ([]<><<PlayRegistered>>_vars => EveryIndexRecurs)

\* a call with a registered delta, made with time on the timer, left the
\* last of MaxFrames frames for frame 0
C29_Witness ==
    /\ Len(played(1).frames) = MaxFrames
    /\ CalledPlay(1)
    /\ ~call[1].absorbed
    /\ call[1].delta > 0
    /\ call[1].pos0 = MaxFrames - 1
    /\ played(1).frame_pos = 0
    /\ call[1].timer0 > 0

(***************************************************************************)
(* SpecQueue: the game loop with a publisher that sends up to MaxQueue     *)
(* coordinates at any moment, also several of them between two updates.    *)
(***************************************************************************)
QueueInputs == {Coordinate(1, 0), Coordinate(0, -1)}

\* event.rs line 93: the coordinate goes to the end of the unbounded channel
Enqueue(c) ==
    /\ published < MaxQueue
    /\ chan' = Append(chan, c)
    /\ published' = published + 1
    /\ UNCHANGED << spriteVars, playVars, screenVars, gameVars, rendVars, eventVars >>

InitQueue ==
    /\ Init
    /\ player_speed = 1

NextQueue ==
    \/ \E c \in QueueInputs : Enqueue(c)
    \/ UpdatePoll
    \/ PlayStep(GameThread)
    \/ UpdateFinish

SpecQueue == InitQueue /\ [][NextQueue]_vars

(***************************************************************************)
(* Properties of the polling of the channel.                               *)
(***************************************************************************)
\* the step sends one coordinate and takes none
SendStep == \E c \in QueueInputs : chan' = Append(chan, c)

\* C30 (under SpecQueue): an update takes at most one coordinate from its
\* channel, the oldest one, applies it to player_pos and leaves the others
\* queued in the order they were sent; with an empty channel it goes on
\* with no input instead of waiting; no other step of the loop takes a
\* coordinate, so what was sent faster than the updates run is applied one
\* coordinate per update, oldest first.
C30_OnePerTick ==
    [][/\ (PollStep /\ chan # << >>) =>
            /\ input' = Some(Head(chan))
            /\ chan' = Tail(chan)
            /\ player_pos'.x = player_pos.x + Head(chan).x * player_speed * delta
            /\ player_pos'.y = player_pos.y + Head(chan).y * player_speed * delta
       /\ (PollStep /\ chan = << >>) => (input' = None /\ chan' = << >>)
       /\ ~PollStep => (chan' = chan \/ SendStep)
       /\ (gpc = "tick" /\ ~TimerBeyondBound) => ENABLED UpdatePoll
      ]_vars

\* (1,0) and (0,-1) were sent between two updates: the next update moved
\* the player right only, the one after it moved the player up
C30_Witness ==
    /\ gpc = "playing"
    /\ published = 2
    /\ chan = << >>
    /\ input = Some(Coordinate(0, -1))
    /\ player_pos.x > 0
    /\ player_pos.y < 0

(***************************************************************************)
(* SpecOverlap: one caller plays a sprite of two frames whose pixels share *)
(* cells, with any mirror mode.                                            *)
(***************************************************************************)
\* (1,1) is drawn RED and then RGBA(1, 2, 3, 4); (0,1) is drawn
\* RGBA(1, 2, 3, 4) and then BLUE
FrameOver ==
    Frame_new(<< Pixel_new(Standard(RED), 1, 1),
                 Pixel_new(Stroke(RGBA(1, 2, 3, 4), Horizontal(2)), 0, 1),
                 Pixel_new(Standard(BLUE), 0, 1) >>, None)

\* (1,0) is drawn BLUE and then TRANSPARENT
FrameUnder ==
    Frame_new(<< Pixel_new(Standard(BLUE), 1, 0),
                 Pixel_new(Standard(TRANSPARENT), 1, 0) >>, None)

OverlapFrames == {FrameA, FrameOver, FrameUnder}

InitOverlap ==
    /\ \E fs \in [1 .. 2 -> OverlapFrames] :
         sprites = [t \in Threads |->
                      [MockCharacter_new EXCEPT !["idle"] =
                          IF t = 1 THEN Sprite_default(fs) ELSE @]]
    /\ InitRest
    /\ player_speed = 1

SpecOverlap == InitOverlap /\ [][NextMirror]_vars

(***************************************************************************)
(* Properties of cells drawn over each other.                              *)
(***************************************************************************)
\* the cells of the pixels, in the order play draws them
RECURSIVE Flat(_)
Flat(pixels) == IF pixels = << >> THEN << >> ELSE Head(pixels) \o Flat(Tail(pixels))

\* the frame the call of t drew and the mirror value it drew it with
DrawnFrame(t) == played(t).frames[played(t).frame_pos + 1]

DrawnMirror(t) ==
    << call[t].mirror,
       IF call[t].mirror = "FlipVertical" THEN DrawnFrame(t).width
       ELSE IF call[t].mirror = "FlipHorizontal" THEN DrawnFrame(t).height
       ELSE 0 >>

\* the cells of the drawn frame, by their place in the drawing order, that
\* land on screen cell xy
Landing(t, xy) ==
    {k \in 1 .. Len(Flat(DrawnFrame(t).pixels)) :
        cell_target(Flat(DrawnFrame(t).pixels)[k], DrawnMirror(t), call[t].offset) = xy}

\* C31 (under SpecOverlap): after a play that returned Ok every screen cell
\* that cells of the frame landed on holds the four bytes of the colour of
\* the cell drawn last (pixels in frame order, cells in pixel order),
\* unblended, also when that colour is RGBA with alpha below 255; a screen
\* cell no cell landed on is as clear left it.
C31_LastWins ==
    \A t \in Threads :
        call[t].result = "Ok"
            => \A x \in 0 .. (ScreenW - 1), y \in 0 .. (ScreenH - 1), j \in 0 .. 3 :
                 LET hits == Landing(t, << x, y >>)
                 IN  buffer[BlockOf(<< x, y >>) + j] =
                        IF hits = {} THEN (IF j = 3 THEN 255 ELSE 0)
                        ELSE ColourByte(Flat(DrawnFrame(t).pixels)[MaxOf(hits)][1], j)

\* FrameOver was drawn unmirrored: (1,1), drawn RED and then
\* RGBA(1, 2, 3, 4), holds 1, 2, 3, 4; (0,1), drawn RGBA(1, 2, 3, 4) and
\* then BLUE, holds 0, 0, 255, 255
C31_Witness ==
    /\ call[1].result = "Ok"
    /\ call[1].mirror = "None"
    /\ DrawnFrame(1) = FrameOver
    /\ Cardinality(Landing(1, << 1, 1 >>)) = 2
    /\ \A j \in 0 .. 3 : buffer[BlockOf(<< 1, 1 >>) + j] = j + 1
    /\ buffer[BlockOf(<< 0, 1 >>)] = 0
    /\ buffer[BlockOf(<< 0, 1 >>) + 2] = 255
    /\ buffer[BlockOf(<< 0, 1 >>) + 3] = 255

(***************************************************************************)
(* Properties of the sprite state over many calls.                         *)
(***************************************************************************)
\* C32 (under SpecPlay): a sprite with a non-empty frame list that starts
\* at frame_pos 0 has, after any sequence of play calls with any deltas, a
\* frame_pos that is an index of its frame list, and so had every call when
\* it was entered: the frame lookups of play are in range.
C32_IndexInRange ==
    \A t \in Threads :
        /\ \A a \in Anims :
              /\ Len(sprites[t][a].frames) > 0
              /\ sprites[t][a].frame_pos \in 0 .. (Len(sprites[t][a].frames) - 1)
        /\ CalledPlay(t) => call[t].pos0 \in 0 .. (Len(played(t).frames) - 1)

\* a call with the largest delta was entered at the last of MaxFrames
\* frames and left the sprite at frame 0
C32_Witness ==
    /\ CalledPlay(1)
    /\ Len(played(1).frames) = MaxFrames
    /\ call[1].delta = MaxDelta
    /\ call[1].pos0 = MaxFrames - 1
    /\ played(1).frame_pos = 0

(***************************************************************************)
(* Properties of the calls that return an error.                           *)
(***************************************************************************)
PlayErrors == {"ScreenLockError", "ClearError", "RenderError"}

\* the timer and frame_pos lines 43-47 leave for the sprite as the call of t
\* found it
AdvancedTimer(t) ==
    LET d == FrameDuration(played(t).frames[call[t].pos0 + 1], Len(played(t).frames))
        timer == call[t].timer0 + call[t].delta
    IN  IF timer >= d THEN timer - d ELSE timer

AdvancedPos(t) ==
    LET d == FrameDuration(played(t).frames[call[t].pos0 + 1], Len(played(t).frames))
    IN  IF call[t].timer0 + call[t].delta >= d
        THEN (call[t].pos0 + 1) % Len(played(t).frames) ELSE call[t].pos0

\* C33 (under SpecShared): the sprite has its new timer and frame_pos while
\* the call still waits for the screen lock, and a call that returned the
\* error of the lock, of clear or of render leaves them so: the sprite is
\* not put back to what it was when the call was entered.
C33_AdvancedOnError ==
    \A t \in Threads :
        (pc[t] = "lock" \/ call[t].result \in PlayErrors)
            => /\ played(t).timer = AdvancedTimer(t)
               /\ played(t).frame_pos = AdvancedPos(t)

\* the lock was poisoned: the call returned ScreenLockError and the sprite
\* is at another frame than when the call was entered
C33_Witness ==
    /\ call[1].result = "ScreenLockError"
    /\ poisoned
    /\ call[1].delta > 0
    /\ played(1).frame_pos # call[1].pos0

\* update returns the error of play
FinishErr == gpc = "playing" /\ gpc' = "tick" /\ call[GameThread].result \in PlayErrors

\* C34 (under Spec): when play returns an error, update returns without
\* sleeping and without recording a new delta, so the next tick plays with
\* the delta this one played with; the coordinate this tick took stays
\* taken: the channel is not refilled and player_pos stays where the tick
\* moved it, the position play was called with.
C34_ErrorTick ==
    [][FinishErr =>
          /\ delta' = delta
          /\ delta = call[GameThread].delta
          /\ pace' = NoPace
          /\ chan' = chan
          /\ player_pos' = player_pos
          /\ player_pos = call[GameThread].offset
      ]_vars

\* an update took the one coordinate that was sent, (1,0) or (-1,0), moved
\* the player with a positive delta and returned the error of play: no
\* pacing was recorded, the delta is still there
C34_Witness ==
    /\ gpc = "tick"
    /\ pace = NoPace
    /\ delta > 0
    /\ animation_trigerred = "side"
    /\ published = 1
    /\ chan = << >>
    /\ player_pos.x # 0

(***************************************************************************)
(* Properties of the four animations of the character.                     *)
(***************************************************************************)
\* C35 (under Spec): an update advances the timer and frame_pos of the
\* animation it plays, from the values that animation was left with when
\* it was played last, and leaves the timer and frame_pos of the other
\* three animations as they are; no other step of the loop changes a
\* sprite.
C35_OneAnimationPerTick ==
    [][IF PollStep
       THEN LET a == call'[GameThread].anim
                s == sprites[GameThread][a]
                d == FrameDuration(s.frames[s.frame_pos + 1], Len(s.frames))
                timer == s.timer + delta
            IN  /\ a = animation_trigerred'
                /\ sprites'[GameThread][a].timer = IF timer >= d THEN timer - d ELSE timer
                /\ sprites'[GameThread][a].frame_pos =
                      IF timer >= d THEN (s.frame_pos + 1) % Len(s.frames) ELSE s.frame_pos
                /\ \A b \in Anims \ {a} : sprites'[GameThread][b] = sprites[GameThread][b]
       ELSE sprites' = sprites
      ]_vars

\* idle is played again after a tick that played the side walk: idle was
\* entered with the time it had gathered before, and the side walk keeps
\* the frame its one tick left it at
C35_Witness ==
    /\ gpc = "playing"
    /\ call[GameThread].anim = "idle"
    /\ call[GameThread].timer0 > 0
    /\ sprites[GameThread]["side"].frame_pos = 1
    /\ sprites[GameThread]["front"] = MockFront_new

(***************************************************************************)
(* SpecStart: a GameState is built, subscribed any number of times, also   *)
(* not at all, and started.  Coordinates are sent on the channels before   *)
(* and after the start.  gpc is "new" until start is called and            *)
(* "NoInputHandlerError" when the thread has logged that error and ended.  *)
(***************************************************************************)
\* the coordinate the sender of channel s sends
ChannelInput(s) == IF s % 2 = 1 THEN Coordinate(1, 0) ELSE Coordinate(0, -1)

\* game.rs lines 44-60: GameState::new, input_handler: None
InitStart ==
    /\ sprites = [t \in Threads |-> MockCharacter_new]
    /\ pc = [t \in Threads |-> "idle"]
    /\ call = [t \in Threads |-> NoCall]
    /\ lock = 0
    /\ poisoned = FALSE
    /\ buffer = [i \in 0 .. (BufLen - 1) |-> 0]
    /\ player_pos = Coordinate(0, 0)
    /\ player_speed = 1
    /\ delta = 0
    /\ fps = frame_budget(2)
    /\ gpc = "new"
    /\ input = None
    /\ pace = NoPace
    /\ chan = << >>
    /\ published = 0
    /\ animation_trigerred = ""
    /\ op = NoOp
    /\ the_frame = Frame_new(<< >>, None)
    /\ subscribers = << >>
    /\ evt = NoEvents
    /\ input_handler = GameInputHandler_default
    /\ keyed = NoKey

\* the receivers GameState.input_handler holds: none or one
Receivers ==
    {s \in DOMAIN subscribers : subscribers[s].owner = GameThread /\ subscribers[s].open}

\* game.rs lines 142-146, called through subscribe_coordinate before start
GameState_subscribe ==
    /\ gpc = "new"
    /\ subscribe_coordinate(GameThread)

\* a coordinate sent on channel s before the game is started; a send on a
\* channel whose receiver was dropped fails and leaves nothing
SendQueued(s) ==
    /\ gpc = "new"
    /\ s \in Receivers
    /\ published < MaxQueue
    /\ subscribers' = [subscribers EXCEPT ![s].queue = Append(@, ChannelInput(s))]
    /\ published' = published + 1
    /\ UNCHANGED << evt, inputVars, spriteVars, playVars, screenVars, gameVars,
                    chan, rendVars >>

\* a coordinate sent on channel s while the loop runs; chan is the channel
\* of the receiver the loop polls
SendRunning(s) ==
    /\ gpc \in {"tick", "playing"}
    /\ s \in Receivers
    /\ published < MaxQueue
    /\ chan' = Append(chan, ChannelInput(s))
    /\ published' = published + 1
    /\ UNCHANGED << eventVars, spriteVars, playVars, screenVars, gameVars, rendVars >>

\* game.rs lines 61-71: start takes the receiver out of input_handler and
\* loops over update with it, or logs NoInputHandlerError and returns
GameState_start ==
    /\ gpc = "new"
    /\ IF Receivers = {}
       THEN /\ gpc' = "NoInputHandlerError"
            /\ UNCHANGED << chan, subscribers >>
       ELSE \E s \in Receivers :
              /\ gpc' = "tick"
              /\ chan' = subscribers[s].queue
              /\ subscribers' = [subscribers EXCEPT ![s].queue = << >>]
    /\ UNCHANGED << evt, inputVars, spriteVars, playVars, screenVars, player_pos,
                    player_speed, delta, fps, input, pace, animation_trigerred,
                    published, rendVars >>

NextStart ==
    \/ GameState_subscribe
    \/ \E s \in SubscriberIds : SendQueued(s)
    \/ GameState_start
    \/ \E s \in SubscriberIds : SendRunning(s)
    \/ UpdatePoll
    \/ PlayStep(GameThread)
    \/ UpdateFinish

SpecStart == InitStart /\ [][NextStart]_vars

(***************************************************************************)
(* Properties of the start of the game loop.                               *)
(***************************************************************************)
\* C36 (under SpecStart): a GameState started before any subscribe logs
\* NoInputHandlerError and its thread ends: update and play are never
\* called.  A GameState started after subscribe runs its updates on the
\* channel of the last subscribe call: what it polls and takes was sent on
\* that channel, and after an update the next one can start.
C36_StartedOnLastReceiver ==
    /\ gpc = "NoInputHandlerError"
          => /\ subscribers = << >>
             /\ call[GameThread] = NoCall /\ pc[GameThread] = "idle"
             /\ sprites[GameThread] = MockCharacter_new
             /\ animation_trigerred = ""
             /\ ~ENABLED UpdatePoll
             /\ ~ENABLED PlayStep(GameThread)
    /\ gpc \in {"tick", "playing"}
          => /\ subscribers # << >>
             /\ Receivers = {Len(subscribers)}
             /\ \A k \in DOMAIN chan : chan[k] = ChannelInput(Len(subscribers))
             /\ input # None => unwrap(input) = ChannelInput(Len(subscribers))
    /\ gpc = "tick" => (TimerBeyondBound \/ ENABLED UpdatePoll)

\* the game was subscribed twice; (1,0) was sent on the first channel and
\* (0,-1) on the second; it was started and, before its first update, has
\* (0,-1) to poll and nothing else
C36_Witness ==
    /\ gpc = "tick"
    /\ animation_trigerred = ""
    /\ Len(subscribers) = 2
    /\ published = 2
    /\ chan = << Coordinate(0, -1) >>

(***************************************************************************)
(* Properties of the byte indexes of Pixel::draw, under SpecDraw.          *)
(***************************************************************************)
\* where the last draw call put cell k of its pixel
DrawTarget(k) == cell_target(drawn_pixel[k], op.arg, op.offset)

\* the cells the last draw call got through and did not skip
Written == {k \in 1 .. op.cells : on_screen(DrawTarget(k)[1], DrawTarget(k)[2])}

\* C37: on a screen whose buffer has width * height * 4 bytes, the index
\* idx a draw computes for a cell it writes has idx >= 0 and
\* idx + 3 < width * height * 4, for every cell, mirror value and offset,
\* negative and fractional offsets included.
C37_IndexInBuffer ==
    op.name = "draw"
        => \A k \in Written :
              /\ (DrawTarget(k)[2] * ScreenW + DrawTarget(k)[1]) * 4 >= 0
              /\ (DrawTarget(k)[2] * ScreenW + DrawTarget(k)[1]) * 4 + 3 < BufLen

\* a draw with the offset of half a cell up wrote a cell at the last four
\* bytes of the buffer and skipped another one
C37_Witness ==
    /\ op.name = "draw"
    /\ ~op.panicked
    /\ op.offset = Coordinate(0, 0 - (TicksPerSecond \div 2))
    /\ \E k \in Written : BlockOf(DrawTarget(k)) + 3 = BufLen - 1
    /\ \E k \in 1 .. op.cells : k \notin Written

(***************************************************************************)
(* Properties of the held-key set, under SpecInput.                        *)
(***************************************************************************)
\* a handler with the bindings of h and no key held
FreshWith(h) == [binding |-> h.binding, mapping |-> {}]

\* C38: the held-key set is empty at first, a press adds the key, bound or
\* not, a release takes it out, and nothing else changes the set: it is the
\* set of the keys whose last event was a press.  A press made when every
\* key pressed before has been released returns what a fresh handler with
\* the same bindings returns.
C38_HeldIsLastPressed ==
    /\ input_handler.mapping = {}
    /\ [][/\ keyed'.state = "Pressed"
               => input_handler'.mapping = input_handler.mapping \cup {keyed'.code}
          /\ keyed'.state = "Released"
               => input_handler'.mapping = input_handler.mapping \ {keyed'.code}
          /\ keyed'.state = "none"
               => input_handler'.mapping = input_handler.mapping
          /\ (keyed'.state = "Pressed" /\ input_handler.mapping = {})
               => /\ keyed'.held = {}
                  /\ keyed'.ret = to_coordinate(FreshWith(input_handler),
                                                [code |-> keyed'.code,
                                                 state |-> "Pressed"]).ret
         ]_vars

\* with one input rebound, the key Power, bound to nothing, was the only
\* key held and is released: no key is held
C38_Witness ==
    /\ keyed.state = "Released"
    /\ keyed.held = {keyed.code}
    /\ keyed.code = "Power"
    /\ input_handler.mapping = {}
    /\ input_handler.binding # GameInputHandler_default.binding

(***************************************************************************)
(* Properties of the first update, under Spec.                             *)
(***************************************************************************)
\* the first update of the GameState polls: no selector of the character
\* was called before
FirstPoll == PollStep /\ animation_trigerred = ""

\* C39: the first update after GameState::new runs with delta = 0: a
\* coordinate that waits in the channel is taken and selects its
\* animation, player_pos stays where it is, and the timer of the animation
\* played does not grow.
C39_FirstTick ==
    [][FirstPoll =>
          /\ delta = 0
          /\ call'[GameThread].delta = 0
          /\ player_pos' = player_pos
          /\ chan # << >>
               => /\ input' = Some(Head(chan))
                  /\ chan' = Tail(chan)
                  /\ animation_trigerred' = select_animation(Some(Head(chan)))[1]
          /\ sprites'[GameThread][animation_trigerred'].timer
                = sprites[GameThread][animation_trigerred'].timer
          /\ sprites'[GameThread][animation_trigerred'].timer = 0
      ]_vars

\* (1,0) is taken in a tick with delta 0: the side walk is played, the
\* player has not moved and no timer has grown
C39_Witness ==
    /\ gpc = "playing"
    /\ delta = 0
    /\ input = Some(Coordinate(1, 0))
    /\ animation_trigerred = "side"
    /\ call[GameThread].anim = "side"
    /\ player_pos = Coordinate(0, 0)
    /\ \A a \in Anims : sprites[GameThread][a].timer = 0

(***************************************************************************)
(* SpecPriority: the inputs are rebound, any number of them, to the keys   *)
(* ArrowLeft and KeyW before the first key event; then keys are pressed    *)
(* and released in any order.                                              *)
(***************************************************************************)
SetupKeys == {"ArrowLeft", "KeyW"}

\* input.rs lines 105-107, called before any key event
SetupBinding(g, key) ==
    /\ keyed = NoKey
    /\ input_handler.mapping = {}
    /\ input_handler' = update_binding(input_handler, g, key)
    /\ UNCHANGED keyed
    /\ UNCHANGED inputRest

NextPriority ==
    \/ \E g \in GameInput, key \in SetupKeys : SetupBinding(g, key)
    \/ \E code \in KeyCode, state \in {"Pressed", "Released"} : ToCoordinate(code, state)

SpecPriority == InitEmpty /\ [][NextPriority]_vars

(***************************************************************************)
(* Properties of the keys of opposite directions.                          *)
(***************************************************************************)
\* the order in which the directions are asked for, and their vectors
Priority ==
    << << {"PlayerMoveUp", "PlayerMoveLeft"}, Coordinate(-1, -1) >>,
       << {"PlayerMoveDown", "PlayerMoveLeft"}, Coordinate(-1, 1) >>,
       << {"PlayerMoveDown", "PlayerMoveRight"}, Coordinate(1, 1) >>,
       << {"PlayerMoveUp", "PlayerMoveRight"}, Coordinate(1, -1) >>,
       << {"PlayerMoveLeft"}, Coordinate(-1, 0) >>,
       << {"PlayerMoveRight"}, Coordinate(1, 0) >>,
       << {"PlayerMoveUp"}, Coordinate(0, -1) >>,
       << {"PlayerMoveDown"}, Coordinate(0, 1) >> >>

\* the vector of the first entry of Priority whose inputs are all in H
ByPriority(H) ==
    LET m == {i \in DOMAIN Priority : Priority[i][1] \subseteq H}
    IN  IF m = {} THEN None
        ELSE Some(Priority[CHOOSE i \in m : \A j \in m : i <= j][2])

\* the inputs whose key is held
HeldInputs == {g \in GameInput : input_handler.binding[g] \in input_handler.mapping}

\* a press after which the keys of two opposite directions are held
PressedOpposite ==
    /\ keyed.state = "Pressed"
    /\ \/ {"PlayerMoveLeft", "PlayerMoveRight"} \subseteq HeldInputs
       \/ {"PlayerMoveUp", "PlayerMoveDown"} \subseteq HeldInputs

\* the key pressed, when it is an arrow key, is the key of its own direction
ArrowOwn ==
    keyed.code \in Arrows
        => \E g \in GameInput : /\ GameInputHandler_default.binding[g] = keyed.code
                                 /\ input_handler.binding[g] = keyed.code

\* C40 as claimed: with the keys of opposite directions held together the
\* press returns the vector of the first of Up+Left, Down+Left, Down+Right,
\* Up+Right, Left, Right, Up, Down that is held, whichever key was pressed
\* last: Left+Right gives (-1,0), Up+Down gives (0,-1).
C40_AsClaimed == PressedOpposite => keyed.ret = ByPriority(HeldInputs)

\* C40 amended: the same, when the key pressed last is not an arrow key
\* that is bound to another input than its own direction or to none.
C40_Priority == (PressedOpposite /\ ArrowOwn) => keyed.ret = ByPriority(HeldInputs)

\* Left was held and Right is pressed: (-1,0), as when Right is held and
\* Left is pressed
C40_Witness ==
    /\ keyed.state = "Pressed"
    /\ keyed.code = input_handler.binding["PlayerMoveRight"]
    /\ keyed.held = {input_handler.binding["PlayerMoveLeft"]}
    /\ HeldInputs = {"PlayerMoveLeft", "PlayerMoveRight"}
    /\ keyed.ret = Some(Coordinate(-1, 0))

=============================================================================
